---- MODULE Spec2Model ----
(***************************************************************************)
(* Model of exiv2wrapper::Image (pyexiv2), the session object that owns    *)
(* the three metadata stores of one image file:                            *)
(*   _dataRead, _exifData, _iptcData, _xmpData, and the stream behind      *)
(*   _image.                                                               *)
(* Stores are sequences of datums, as Exiv2's ExifMetadata, IptcMetadata   *)
(* and XmpMetadata containers are.  An iterator is a position 1..Len+1,    *)
(* Len+1 being end().                                                      *)
(***************************************************************************)
EXTENDS Integers, Sequences, FiniteSets, TLC

\* ---------------------------------------------------------------- bounds
\* Number of calls made on the sessions in one behaviour.
MaxOps == 3
\* Longest list handed to setIptcTagValues.
MaxValues == 2
\* Number of calls in one behaviour of the editing clients (SpecEdit).
MaxEdits == 4
\* Largest dict handed to setXmpTagLangAltValue.
MaxLangs == 1
\* Calls made by a client of SpecView.
MaxViews == 4
\* Constructor and destructor calls in one behaviour of SpecOpen.
MaxOpens == 4
\* Largest error code handed to translateExiv2Error.
MaxErrorCode == 104
\* Errors translated in one behaviour of SpecError.
MaxErrors == 2
\* Calls made by the threads in one behaviour of SpecRace.
MaxRaceOps == 3
\* Calls made by a client of SpecRef.
MaxRefOps == 4
\* Calls made by a client of SpecCopy.
MaxCopyOps == 4
\* Calls made by a client of SpecBuffer.
MaxBufferOps == 3
\* Calls made on IptcTag objects in one behaviour of SpecTag.
MaxTagOps == 3
\* Calls made by a client of the XMP setters (SpecXmp).
MaxXmpOps == 3
\* Calls made by a client of LibPyExiv2::Image (SpecLib).
MaxLibOps == 3
\* Largest repetition index handed to setIptcTag and deleteIptcTag.
MaxIndex == 3
\* Calls made by the threads in one behaviour of SpecThreads.
MaxThreadOps == 3

\* ------------------------------------------------------- program constants
METADATA_NOT_READ == 101
NON_REPEATABLE == 102
KEY_NOT_FOUND == 103
\* Exiv2 error codes used by the model: 6 invalid key, 14 failed to read
\* image data, 21 failed to write image.
INVALID_KEY == 6
READ_FAILED == 14
WRITE_FAILED == 21
\* No error (Exiv2::Error error(0)).
NO_ERROR == 0
\* Exiv2: the file, or the memory, contains data of an unknown image type
OPEN_FAILED == 11
OPEN_MEMORY_FAILED == 12
\* Return code of IptcData::add for a second datum of a non-repeatable key.
ADD_NOT_REPEATABLE == 6

\* ------------------------------------------------------------------ domains
Sessions == {"A", "B"}
Files == {"a.jpg", "b.jpg"}

Values == {"v1", "v2"}

\* Python threads that call into the library.
Threads == {"T1", "T2"}

\* IptcTag, ExifTag and XmpTag objects that clients construct or get.
Tags == {"t1", "t2"}
\* A tag not constructed yet: status is none, then live (constructed) or
\* failed (its constructor threw).  data holds the datums behind _data of an
\* IptcTag.  For an ExifTag or an XmpTag (kind) got from a session (of),
\* _datum tells what the pointer designates: the datum of the key in the
\* store of the session (datum), or no such datum any more (stale).
NoTag ==
    [status |-> "none", key |-> "", data |-> <<>>, kind |-> "none", of |-> "A",
     _datum |-> "nothing"]

\* Image objects that clients construct and destroy besides the sessions.
Objs == {"o1", "o2"}
\* An object not constructed yet: status is none, then live (constructed),
\* failed (its constructor threw) or destroyed; data tells that the array
\* the object allocated for _data is still allocated, image that _image holds
\* an Exiv2 image.  _data is the value of the pointer: null, own (the array
\* the object allocated), wild (an indeterminate value that is not null) or
\* none (no value was ever looked at); _dataRead is indeterminate until it is
\* assigned; freed tells what the destructor handed to delete[].
NoObject ==
    [status |-> "none", data |-> FALSE, image |-> FALSE, _data |-> "none",
     _dataRead |-> "indeterminate", freed |-> "nothing"]

\* A string that no key class accepts.
BadKey == "NotAKey"

ExifKeys == {"Exif.Image.Make", "Exif.Image.Model"}
IptcRepeatableKey == "Iptc.Application2.Keywords"
IptcSingleKey == "Iptc.Application2.Headline"
IptcKeys == {IptcRepeatableKey, IptcSingleKey}
\* One XMP key of each structure: text, bag and language alternative.
XmpTextKey == "Xmp.dc.format"
XmpKeys == {XmpTextKey, "Xmp.dc.subject", "Xmp.dc.title"}

\* Exiv2::IptcDataSets::dataSetRepeatable
dataSetRepeatable(key) == key = IptcRepeatableKey

Datum(k, v) == [key |-> k, value |-> v]

\* ---------------------------------------------------------------- helpers
RECURSIVE SelectIdx(_, _, _)
\* Positions i >= from of seq whose datum has the key, ascending.
SelectIdx(seq, key, from) ==
    IF from > Len(seq) THEN <<>>
    ELSE IF seq[from].key = key
         THEN <<from>> \o SelectIdx(seq, key, from + 1)
         ELSE SelectIdx(seq, key, from + 1)

\* std::find_if(from, end(), FindIptcdatum(key)) and Metadata::findKey:
\* the first position >= from holding the key, or end() = Len + 1.
FindFrom(seq, key, from) ==
    LET idx == SelectIdx(seq, key, from)
    IN  IF idx = <<>> THEN Len(seq) + 1 ELSE idx[1]

findKey(seq, key) == FindFrom(seq, key, 1)

\* container.erase(pos)
erase(seq, pos) ==
    [i \in 1..(Len(seq) - 1) |-> IF i < pos THEN seq[i] ELSE seq[i + 1]]

\* datum.setValue(value) on the datum at pos
setValueAt(seq, pos, v) == [seq EXCEPT ![pos].value = v]

\* The keys of a store, in store order.
keysOf(seq) == [i \in 1..Len(seq) |-> seq[i].key]

\* ------------------------------------------------------------------- state
VARIABLES
    dataRead,   \* _dataRead of each session
    storeAt,    \* the store objects that are the members of each session
    exifData,   \* content of each Exiv2::ExifData object
    iptcData,   \* content of each Exiv2::IptcData object
    xmpData,    \* content of each Exiv2::XmpData object
    stream,     \* the metadata segments held by the file behind _image->io()
    io,         \* _image->io() of each session: its class, whether it is
                \* open, and the position it is at
    last,       \* the call made last and how it ended
    imageData,  \* the metadata held by the Exiv2::Image behind _image
    shown,      \* per session: the lists returned by previews since the last
                \* readMetadata or writeMetadata that reached the Exiv2::Image
    copied,     \* the kinds of store copied from one session to the other
                \* since a session last loaded its stores
    obj,        \* further Image objects: how far each got and what it holds
    aborted,    \* the process was ended by a memory fault
    threads,    \* the Python threads: which one holds the GIL, where each is
                \* in the method it called, and the error it caught there
    tag,        \* the IptcTag objects: their key and the datums behind _data
    nops        \* number of calls made so far

vars == <<dataRead, storeAt, exifData, iptcData, xmpData, stream, io, last, copied,
          imageData, shown, obj, aborted, threads, tag, nops>>

\* The file each session was opened on (_filename): session A on a.jpg,
\* session B on b.jpg, or on a.jpg too when that is the only file there is.
filename ==
    [s \in Sessions |-> IF s = "A" \/ DOMAIN stream = {"a.jpg"} THEN "a.jpg" ELSE "b.jpg"]

StoreKinds == {"exif", "iptc", "xmp"}

\* A variant in which the stores are shared by all the sessions, as static
\* members would be.
staticStores(s) == [exif |-> "A", iptc |-> "A", xmp |-> "A"]

\* _exifData, _iptcData and _xmpData are members held by value: each session
\* has store objects of its own, named after it.
ownStores(s) == [exif |-> s, iptc |-> s, xmp |-> s]

\* The content of the members of session s.
Exif(s) == exifData[storeAt[s].exif]
Iptc(s) == iptcData[storeAt[s].iptc]
Xmp(s) == xmpData[storeAt[s].xmp]
StoresOf(s) == <<Exif(s), Iptc(s), Xmp(s)>>

\* -------------------------------------------------------------- XMP values
\* Exiv2::XmpProperties::propertyType
propertyType(key) ==
    CASE key = "Xmp.dc.format"  -> "xmpText"
      [] key = "Xmp.dc.subject" -> "xmpBag"
      [] key = "Xmp.dc.title"   -> "langAlt"
      [] OTHER                  -> "xmpText"

\* A datum whose value_ pointer is null (after setValue(0) or operator[]).
NoValue == [t |-> "none"]

\* A string handed to Xmpdatum::setValue: text, or  lang="l" text  as built
\* by setXmpTagLangAltValue (lang = "" when there is no such prefix).
LangString(l, text) == [lang |-> l, text |-> text]
PlainString(text) == LangString("", text)
IsLangString(str) == str.lang # ""

\* Value::create(type) for the type of an XMP key.
createXmpValue(key) ==
    CASE propertyType(key) = "xmpBag"  -> [t |-> "array", v |-> <<>>]
      [] propertyType(key) = "langAlt" -> [t |-> "langalt", v |-> {}]
      [] OTHER                         -> [t |-> "text", v |-> PlainString("")]

\* XmpTextValue::read, XmpArrayValue::read, LangAltValue::read
readXmpValue(val, str) ==
    CASE val.t = "text"  -> [val EXCEPT !.v = str]
      [] val.t = "array" -> [val EXCEPT !.v = Append(@, str)]
      [] OTHER ->
           LET l   == IF IsLangString(str) THEN str.lang ELSE "x-default"
               txt == str.text
           IN  [val EXCEPT !.v = {e \in @ : e[1] # l} \cup {<<l, txt>>}]

\* Xmpdatum::setValue(const std::string&)
xmpSetValue(datum, str) ==
    LET cur == IF datum.value = NoValue THEN createXmpValue(datum.key)
               ELSE datum.value
    IN  [datum EXCEPT !.value = readXmpValue(cur, str)]

RECURSIVE xmpSetValues(_, _)
\* The loop of setXmpTagArrayValue and setXmpTagLangAltValue:
\* datum.setValue(str) for each str of strs in turn.
xmpSetValues(datum, strs) ==
    IF strs = <<>> THEN datum
    ELSE xmpSetValues(xmpSetValue(datum, Head(strs)), Tail(strs))

\* ------------------------------------------------------------------- codec
\* A variant of add() that accepts any datum.
iptcAddAlways(seq, key) == NO_ERROR

\* IptcData::add: a second datum of a non-repeatable key is refused.
iptcAddState(seq, key) ==
    IF ~dataSetRepeatable(key) /\ findKey(seq, key) <= Len(seq)
    THEN ADD_NOT_REPEATABLE ELSE 0

iptcAdd(seq, datum) ==
    IF iptcAddState(seq, datum.key) = 0 THEN Append(seq, datum) ELSE seq

RECURSIVE decodeIptc(_, _)
\* IptcParser::decode: every dataset of the segment goes through add().
decodeIptc(raw, acc) ==
    IF raw = <<>> THEN acc
    ELSE decodeIptc(Tail(raw), iptcAdd(acc, Head(raw)))

\* Tag numbers of the Exif keys (IFD0).
exifTag(key) == IF key = "Exif.Image.Make" THEN 271 ELSE 272

RECURSIVE sortByTag(_)
\* The encoder writes the entries of an IFD in ascending tag order.
sortByTag(seq) ==
    IF seq = <<>> THEN <<>>
    ELSE LET m == CHOOSE i \in 1..Len(seq) :
                     \A j \in 1..Len(seq) :
                        exifTag(seq[i].key) < exifTag(seq[j].key)
                        \/ (exifTag(seq[i].key) = exifTag(seq[j].key) /\ i <= j)
         IN  <<seq[m]>> \o sortByTag(erase(seq, m))

\* What Exiv2::Image::readMetadata loads from the segments of a file.
decode(segs) ==
    [exif |-> segs.exif, iptc |-> decodeIptc(segs.iptc, <<>>), xmp |-> segs.xmp]

\* A variant that writes no XMP packet.
encodeWithoutXmp(exif, iptc, xmp) ==
    [exif |-> sortByTag(exif), iptc |-> iptc, xmp |-> <<>>]

\* What Exiv2::Image::writeMetadata puts in the segments.
encode(exif, iptc, xmp) ==
    [exif |-> sortByTag(exif), iptc |-> iptc, xmp |-> xmp]

\* XmpParser::encode reads value() of each datum, which throws on a datum
\* without a value.
VALUE_NOT_SET == 8
canEncodeXmp(xmp) == \A i \in 1..Len(xmp) : xmp[i].value # NoValue

\* ---------------------------------------------------------------- results
\* What is recorded of a call: the method, the session it was called on, the
\* error code it threw (NO_ERROR when it returned), its key argument (for
\* copyMetadata the target session), the length of its list argument, what
\* it returned, _dataRead of the session on entry, whether the content
\* of any store object differs from what it was on entry, and the error
\* that Exiv2 raised in the try block of the call (NO_ERROR when it raised
\* none, and for the calls that have no try block).
Result(op, s, err, key, n, ret, wasRead, changed, raised) ==
    [op |-> op, s |-> s, err |-> err, key |-> key, n |-> n, ret |-> ret,
     wasRead |-> wasRead, changed |-> changed, raised |-> raised]

NoCall == Result("none", "A", NO_ERROR, "", 0, <<>>, FALSE, FALSE, NO_ERROR)

\* A call ends: its outcome is recorded.
Returns(op, s, err, key, n, ret) ==
    /\ last' = Result(op, s, err, key, n, ret, dataRead[s],
                      <<exifData', iptcData', xmpData'>> # <<exifData, iptcData, xmpData>>,
                      NO_ERROR)
    /\ nops' = nops + 1

\* A variant that logs the error caught and lets the call return.
logged(error) == NO_ERROR

\* if (error.code() != 0) throw error;  after Py_END_ALLOW_THREADS: what
\* the caller gets is the error caught in the try block, if there was one.
thrown(error) == error

\* A call with a try block ends; error is what the catch clause stored
\* (Exiv2::Error error(0) when nothing was caught).
Rethrows(op, s, error) ==
    /\ last' = Result(op, s, thrown(error), "", 0, <<>>, dataRead[s],
                      <<exifData', iptcData', xmpData'>> # <<exifData, iptcData, xmpData>>,
                      error)
    /\ nops' = nops + 1

\* A variant without the gate, as if the macro expanded to nothing.
metadataReadAssumed(s) == TRUE

\* CHECK_METADATA_READ: the method goes on when _dataRead is set, and throws
\* METADATA_NOT_READ otherwise.
CHECK_METADATA_READ(s) == dataRead[s]

\* The call throws before touching anything.
Throws(op, s, err, key, n) ==
    /\ UNCHANGED <<dataRead, storeAt, copied, imageData, shown, exifData, iptcData,
                   xmpData, stream, io, aborted, obj>>
    /\ Returns(op, s, err, key, n, <<>>)

\* A further call can be made: the process is alive and the budget of the
\* behaviour is not used up.
Within(max) == ~aborted /\ nops < max

\* A further call is made from its entry to its exit by a thread that holds
\* the GIL when it enters and when it leaves, with no step of another thread
\* in between; it touches no IptcTag object.
Sequential(max) == Within(max) /\ UNCHANGED <<threads, tag>>

\* The session and the object that a thread works on in SpecThreads.
sessionOf(t) == IF t = "T1" THEN "A" ELSE "B"
objectOf(t) == IF t = "T1" THEN "o1" ELSE "o2"

\* What a session holds before its first read: no datum, flag not set.
NotLoaded == [exif |-> <<>>, iptc |-> <<>>, xmp |-> <<>>, flag |-> FALSE]

\* -------------------------------------------------------------------- Init
\* Segments the files can hold when the sessions are opened.  The IPTC
\* segment of Twice holds two datasets of a non-repeatable key.
Rich ==
    [exif |-> <<Datum("Exif.Image.Make", "v1")>>,
     iptc |-> <<Datum(IptcRepeatableKey, "v1"), Datum(IptcSingleKey, "v1"),
                Datum(IptcRepeatableKey, "v2")>>,
     xmp  |-> <<Datum("Xmp.dc.format", [t |-> "text", v |-> PlainString("v1")])>>]
Other ==
    [exif |-> <<Datum("Exif.Image.Make", "v2")>>,
     iptc |-> <<Datum(IptcSingleKey, "v2")>>,
     xmp  |-> <<>>]
Twice ==
    [exif |-> <<>>,
     iptc |-> <<Datum(IptcSingleKey, "v1"), Datum(IptcSingleKey, "v2")>>,
     xmp  |-> <<>>]
Empty == [exif |-> <<>>, iptc |-> <<>>, xmp |-> <<>>]

InitialStreams ==
    { [f \in Files |-> IF f = "a.jpg" THEN Rich ELSE Other],
      [f \in Files |-> IF f = "a.jpg" THEN Twice ELSE Empty],
      [f \in {"a.jpg"} |-> Rich] }

\* ------------------------------------------------------------- the stream
\* The content of a stream, as the units that io.read hands out one at a
\* time: the start of the image and its three metadata segments.
bytesOf(segs) == <<<<"SOI", <<>>>>, <<"exif", segs.exif>>, <<"iptc", segs.iptc>>,
                   <<"xmp", segs.xmp>>>>

\* The stream of an image that Exiv2::ImageFactory::open has just made (from
\* a path: FileIo, from a buffer: MemIo): opened, and back at the start
\* after the test of the image type.
NewIo(kind) == [kind |-> kind, isopen |-> TRUE, pos |-> 0]

\* A variant of seek that leaves the stream where it is.
stays(r, pos) == r

\* BasicIo::seek(pos, BasicIo::beg)
seek(r, pos) == [r EXCEPT !.pos = pos]

\* BasicIo::open: FileIo opens the file, MemIo goes to the start.
open(r) == [r EXCEPT !.isopen = TRUE, !.pos = 0]

\* BasicIo::close: FileIo closes the file; MemIo has nothing to close, it
\* stays open (MemIo::isopen is always true) where it is.
close(r) == IF r.kind = "file" THEN [r EXCEPT !.isopen = FALSE, !.pos = 0] ELSE r

\* BasicIo::read(buf, 1): one unit at the position, which moves on; at the
\* end of the stream nothing is read (blank is what buf held).
read(r, bytes, blank) ==
    IF r.isopen /\ r.pos < Len(bytes)
    THEN [io |-> [r EXCEPT !.pos = r.pos + 1], byte |-> bytes[r.pos + 1]]
    ELSE [io |-> r, byte |-> blank]

\* Where Exiv2::Image::readMetadata and writeMetadata leave the stream:
\* they open it and an IoCloser closes it when they end, also when they
\* throw.  A file is closed; a MemIo stays where the parser stopped.
viaIoCloser(r, bytes) ==
    IF r.kind = "file" THEN {close(open(r))}
    ELSE {seek(close(open(r)), p) : p \in 0..Len(bytes)}

\* _image->readMetadata() or _image->writeMetadata() has used the stream of
\* session s.
imageIo(s) ==
    \E r \in viaIoCloser(io[s], bytesOf(stream[filename[s]])) :
       io' = [io EXCEPT ![s] = r]

\* Both sessions have been constructed (_instantiate_image succeeded:
\* _dataRead = false, stores empty); ios are the streams they can have.
Constructed(ios) ==
    /\ dataRead = [s \in Sessions |-> FALSE]
    /\ storeAt = [s \in Sessions |-> ownStores(s)]
    /\ exifData = [s \in Sessions |-> <<>>]
    /\ iptcData = [s \in Sessions |-> <<>>]
    /\ xmpData = [s \in Sessions |-> <<>>]
    /\ stream \in InitialStreams
    /\ io \in ios
    /\ last = NoCall
    /\ copied = {}
    /\ imageData = [s \in Sessions |-> Empty]
    /\ shown = [s \in Sessions |-> <<>>]
    /\ obj = [o \in Objs |-> NoObject]
    /\ aborted = FALSE
    /\ threads = [holder |-> "none",
                  pc     |-> [t \in Threads |-> "python"],
                  op     |-> [t \in Threads |-> "none"],
                  error  |-> [t \in Threads |-> NO_ERROR],
                  thrown |-> [t \in Threads |-> NO_ERROR],
                  on     |-> [t \in Threads |-> sessionOf(t)],
                  step   |-> [t \in Threads |-> 0],
                  before |-> [t \in Threads |-> NotLoaded]]
    /\ tag = [o \in Tags |-> NoTag]
    /\ nops = 0

\* Both sessions have been constructed from their file names.
Init == Constructed({[s \in Sessions |-> NewIo("file")]})

\* Each session has been constructed from a file name or from a buffer; the
\* stream of a session on a buffer is the copy that the session holds, which
\* no other session works on.
InitBuffer ==
    /\ Constructed([Sessions -> {NewIo("file"), NewIo("memory")}])
    /\ \A s, t \in Sessions :
          (s # t /\ io[s].kind = "memory") => filename[s] # filename[t]

\* --------------------------------------------------------------- lifecycle
\* A constructor or destructor call on object o ends; err is the error
\* caught in _instantiate_image (NO_ERROR when there was none).
Ends(op, o, err) ==
    /\ last' = Result(op, o, thrown(err), "", 0, <<>>, FALSE, FALSE, err)
    /\ nops' = nops + 1
    /\ UNCHANGED <<dataRead, storeAt, copied, imageData, shown, exifData, iptcData,
                   xmpData, stream, io, aborted>>

\* Image::_instantiate_image: ImageFactory::open gives _image an Exiv2
\* image, or throws (the image could not be opened or recognized) and the
\* error is thrown again out of the constructor.  The members of an object
\* whose constructor throws are destroyed; its destructor is not run.
instantiate_image(o, _data, ok) ==
    /\ obj' = [obj EXCEPT ![o] =
                 [status |-> IF ok THEN "live" ELSE "failed",
                  data |-> (_data = "own"), image |-> ok, _data |-> _data,
                  _dataRead |-> IF ok THEN "false" ELSE "indeterminate",
                  freed |-> "nothing"]]
    /\ Ends("Image", o, IF ok THEN NO_ERROR
                        ELSE IF _data # "null" THEN OPEN_MEMORY_FAILED ELSE OPEN_FAILED)

\* Image::Image(const std::string& filename): _data = 0.
ImageFromFile(o, ok) ==
    /\ obj[o].status = "none"
    /\ instantiate_image(o, "null", ok)

\* Image::Image(const std::string& buffer, long size):
\* _data = new Exiv2::byte[size], filled from the buffer.
ImageFromBuffer(o, ok) ==
    /\ obj[o].status = "none"
    /\ instantiate_image(o, "own", ok)

\* Image::Image(const Image& image): _filename is copied, _data and _size
\* are given no value.  _instantiate_image tests the indeterminate _data:
\* it is null or it is not.
ImageFromImage(o, image, _data, ok) ==
    /\ obj[o].status = "none"
    /\ obj[image].status = "live"
    /\ o # image
    /\ _data \in {"null", "wild"}
    /\ instantiate_image(o, _data, ok)

\* Image::~Image: delete[] _data if it is not null; then the members are
\* destroyed, and the AutoPtr deletes the Exiv2 image.
destroyImage(o) ==
    /\ obj[o].status = "live"
    /\ obj' = [obj EXCEPT ![o] =
                 [@ EXCEPT !.status = "destroyed", !.data = FALSE, !.image = FALSE,
                           !.freed = IF obj[o]._data = "null" THEN "nothing"
                                     ELSE obj[o]._data]]
    /\ Ends("~Image", o, NO_ERROR)

\* No list of previews is remembered any more.
NoneShown == [t \in Sessions |-> <<>>]

\* What the Exiv2::Image can hold after its readMetadata has thrown: what it
\* held (the file could not be opened), nothing (the metadata is cleared
\* before the segments are parsed), or the segments parsed before the fault.
afterFailedRead(s) ==
    {imageData[s], Empty, [Empty EXCEPT !.exif = decode(stream[filename[s]]).exif]}

\* A variant that loads the Exif and IPTC stores and leaves the XMP store
\* as it is.
readMetadataKeepingXmp(s) ==
    \E ok \in BOOLEAN :
       IF ok
       THEN LET m == decode(stream[filename[s]])
            IN  /\ imageData' = [imageData EXCEPT ![s] = m]
                /\ exifData' = [exifData EXCEPT ![storeAt[s].exif] = m.exif]
                /\ iptcData' = [iptcData EXCEPT ![storeAt[s].iptc] = m.iptc]
                /\ dataRead' = [dataRead EXCEPT ![s] = TRUE]
                /\ copied' = {}
                /\ shown' = NoneShown
                /\ UNCHANGED <<xmpData, storeAt, stream, aborted, obj>>
                /\ imageIo(s)
                /\ Rethrows("readMetadata", s, NO_ERROR)
       ELSE /\ \E m \in afterFailedRead(s) : imageData' = [imageData EXCEPT ![s] = m]
            /\ shown' = NoneShown
            /\ UNCHANGED <<dataRead, storeAt, copied, exifData, iptcData, xmpData,
                           stream, aborted, obj>>
            /\ imageIo(s)
            /\ Rethrows("readMetadata", s, READ_FAILED)

\* A variant in which a read that fails clears the read flag.
readMetadataClearingFlag(s) ==
    \E ok \in BOOLEAN :
       IF ok
       THEN LET m == decode(stream[filename[s]])
            IN  /\ imageData' = [imageData EXCEPT ![s] = m]
                /\ exifData' = [exifData EXCEPT ![storeAt[s].exif] = m.exif]
                /\ iptcData' = [iptcData EXCEPT ![storeAt[s].iptc] = m.iptc]
                /\ xmpData' = [xmpData EXCEPT ![storeAt[s].xmp] = m.xmp]
                /\ dataRead' = [dataRead EXCEPT ![s] = TRUE]
                /\ copied' = {}
                /\ shown' = NoneShown
                /\ UNCHANGED <<storeAt, stream, aborted, obj>>
                /\ imageIo(s)
                /\ Rethrows("readMetadata", s, NO_ERROR)
       ELSE /\ \E m \in afterFailedRead(s) : imageData' = [imageData EXCEPT ![s] = m]
            /\ shown' = NoneShown
            /\ dataRead' = [dataRead EXCEPT ![s] = FALSE]
            /\ UNCHANGED <<storeAt, copied, exifData, iptcData, xmpData,
                           stream, aborted, obj>>
            /\ imageIo(s)
            /\ Rethrows("readMetadata", s, READ_FAILED)

\* Image::readMetadata
readMetadata(s) ==
    \E ok \in BOOLEAN :
       IF ok
       THEN LET m == decode(stream[filename[s]])
            IN  /\ imageData' = [imageData EXCEPT ![s] = m]
                /\ exifData' = [exifData EXCEPT ![storeAt[s].exif] = m.exif]
                /\ iptcData' = [iptcData EXCEPT ![storeAt[s].iptc] = m.iptc]
                /\ xmpData' = [xmpData EXCEPT ![storeAt[s].xmp] = m.xmp]
                /\ dataRead' = [dataRead EXCEPT ![s] = TRUE]
                /\ copied' = {}
                /\ shown' = NoneShown
                /\ UNCHANGED <<storeAt, stream, aborted, obj>>
                /\ imageIo(s)
                /\ Rethrows("readMetadata", s, NO_ERROR)
       ELSE /\ \E m \in afterFailedRead(s) : imageData' = [imageData EXCEPT ![s] = m]
            /\ shown' = NoneShown
            /\ UNCHANGED <<dataRead, storeAt, copied, exifData, iptcData, xmpData,
                           stream, aborted, obj>>
            /\ imageIo(s)
            /\ Rethrows("readMetadata", s, READ_FAILED)

\* _image->setExifData(_exifData), setIptcData(_iptcData),
\* setXmpData(_xmpData), then _image->writeMetadata(), which throws
\* (ok = FALSE) or replaces the metadata of the file.
commit(s, ok) ==
    /\ imageData' = [imageData EXCEPT ![s] =
                       [exif |-> Exif(s), iptc |-> Iptc(s), xmp |-> Xmp(s)]]
    /\ shown' = NoneShown
    /\ stream' = IF ok
                 THEN [stream EXCEPT ![filename[s]] = encode(Exif(s), Iptc(s), Xmp(s))]
                 ELSE stream
    /\ imageIo(s)
    /\ UNCHANGED <<dataRead, storeAt, copied, exifData, iptcData, xmpData, aborted, obj>>

\* A variant that commits without looking at _dataRead.
writeMetadataUnchecked(s) ==
    /\ IF ~canEncodeXmp(Xmp(s))
       THEN /\ commit(s, FALSE)
            /\ Rethrows("writeMetadata", s, VALUE_NOT_SET)
       ELSE \E ok \in BOOLEAN :
              /\ commit(s, ok)
              /\ Rethrows("writeMetadata", s, IF ok THEN NO_ERROR ELSE WRITE_FAILED)

\* Image::writeMetadata
writeMetadata(s) ==
    /\ IF ~CHECK_METADATA_READ(s)
       THEN Throws("writeMetadata", s, METADATA_NOT_READ, "", 0)
       ELSE IF ~canEncodeXmp(Xmp(s))
       THEN /\ commit(s, FALSE)
            /\ Rethrows("writeMetadata", s, VALUE_NOT_SET)
       ELSE \E ok \in BOOLEAN :
              /\ commit(s, ok)
              /\ Rethrows("writeMetadata", s, IF ok THEN NO_ERROR ELSE WRITE_FAILED)

\* Image::pixelWidth, Image::pixelHeight, Image::mimeType
imageProperty(s, op) ==
    /\ IF ~CHECK_METADATA_READ(s)
       THEN Throws(op, s, METADATA_NOT_READ, "", 0)
       ELSE /\ UNCHANGED <<dataRead, storeAt, copied, imageData, shown, exifData, iptcData, xmpData, stream, io, aborted, obj>>
            /\ Returns(op, s, NO_ERROR, "", 0, <<>>)

pixelWidth(s) == imageProperty(s, "pixelWidth")
pixelHeight(s) == imageProperty(s, "pixelHeight")
mimeType(s) == imageProperty(s, "mimeType")

\* Exiv2::PreviewManager(*_image).getPreviewProperties(): the previews are
\* found through the Exif data that the Exiv2::Image itself holds (the
\* thumbnail entries and their data); the list is represented by that data.
getPreviewProperties(m) == m.exif

\* A variant that looks for the previews in the _exifData member.
previewsOfStore(s) ==
    /\ IF ~CHECK_METADATA_READ(s)
       THEN Throws("previews", s, METADATA_NOT_READ, "", 0)
       ELSE /\ shown' = [shown EXCEPT ![s] = Append(@, Exif(s))]
            /\ UNCHANGED <<dataRead, storeAt, copied, imageData, exifData, iptcData,
                           xmpData, stream, io, aborted, obj>>
            /\ Returns("previews", s, NO_ERROR, "", 0, Exif(s))

\* Image::previews
previews(s) ==
    /\ IF ~CHECK_METADATA_READ(s)
       THEN Throws("previews", s, METADATA_NOT_READ, "", 0)
       ELSE /\ shown' = [shown EXCEPT ![s] = Append(@, getPreviewProperties(imageData[s]))]
            /\ UNCHANGED <<dataRead, storeAt, copied, imageData, exifData, iptcData,
                           xmpData, stream, io, aborted, obj>>
            /\ Returns("previews", s, NO_ERROR, "", 0, getPreviewProperties(imageData[s]))

\* A variant of the switch without the custom error codes.
exiv2CodesOnly(code) == "RuntimeError"

\* translateExiv2Error: the type of the Python exception that the switch on
\* error.code() sets, case by case; the last line is its default handler.
translateExiv2Error(code) ==
    CASE code \in {2, 40} -> "RuntimeError"
      [] code \in {3, 9, 10, 11, 12, 13, 14, 15, 17, 18, 19, 20, 21, 22, 26, 27,
                   31, 33, 49} -> "IOError"
      [] code \in {4, 5, 6, 7, 23, 35, 36, 44, 46} -> "KeyError"
      [] code \in {8, 28, 29, 30, 32, 37, 41, 42, 43, 45, 47} -> "ValueError"
      [] code \in {38, 39, 48} -> "TypeError"
      [] code = METADATA_NOT_READ -> "IOError"
      [] code \in {NON_REPEATABLE, KEY_NOT_FOUND} -> "KeyError"
      [] OTHER -> "RuntimeError"

\* The message handed to PyErr_SetString: error.what() for the codes of
\* Exiv2 and for the default, a fixed text for the custom codes.
message(code) ==
    CASE code = METADATA_NOT_READ -> "Image metadata has not been read yet"
      [] code = NON_REPEATABLE    -> "Tag is not repeatable"
      [] code = KEY_NOT_FOUND     -> "Tag not set"
      [] OTHER                    -> "error.what()"

\* PyErr_SetString: one more exception set by the translator.
PyErr_SetString(set, type, text) == Append(set, <<type, text>>)

\* The translator is called with an error of the given code; ret lists the
\* exceptions it has set.
translate(code) ==
    /\ last' = Result("translateExiv2Error", "A", code, "", 0,
                      PyErr_SetString(<<>>, translateExiv2Error(code), message(code)),
                      FALSE, FALSE, code)
    /\ nops' = nops + 1
    /\ UNCHANGED <<dataRead, storeAt, exifData, iptcData, xmpData, stream, io, copied,
                   imageData, shown, obj, aborted, threads, tag>>

\* -------------------------------------------------------------- EXIF store
\* A variant of the key class that accepts any string.
anyKey(key) == TRUE

\* Exiv2::ExifKey(key) throws on a string that is not an Exif key.
validExifKey(key) == key \in ExifKeys

\* Image::exifKeys
exifKeys(s) ==
    /\ IF ~CHECK_METADATA_READ(s)
       THEN Throws("exifKeys", s, METADATA_NOT_READ, "", 0)
       ELSE /\ UNCHANGED <<dataRead, storeAt, copied, imageData, shown, exifData, iptcData, xmpData, stream, io, aborted, obj>>
            /\ Returns("exifKeys", s, NO_ERROR, "", 0, keysOf(Exif(s)))

\* Image::getExifTag
getExifTag(s, key) ==
    /\ IF ~CHECK_METADATA_READ(s)
       THEN Throws("getExifTag", s, METADATA_NOT_READ, key, 0)
       ELSE IF ~validExifKey(key)
       THEN Throws("getExifTag", s, INVALID_KEY, key, 0)
       ELSE IF findKey(Exif(s), key) > Len(Exif(s))
       THEN Throws("getExifTag", s, KEY_NOT_FOUND, key, 0)
       ELSE /\ UNCHANGED <<dataRead, storeAt, copied, imageData, shown, exifData, iptcData, xmpData, stream, io, aborted, obj>>
            /\ Returns("getExifTag", s, NO_ERROR, key, 0,
                       <<Exif(s)[findKey(Exif(s), key)].value>>)

\* A variant that adds a datum whether or not the key has one.
exifAppend(seq, key, value) == Append(seq, Datum(key, value))

\* A variant that creates the datum of an absent key and leaves the datum
\* of a present key as it is.
exifAssignIfAbsent(seq, key, value) ==
    IF findKey(seq, key) <= Len(seq) THEN seq ELSE Append(seq, Datum(key, value))

\* A variant that erases the datum of a present key and adds a new datum
\* at the end of the store, as setExifTag of the earlier LibPyExiv2::Image
\* did before assigning.
exifEraseThenAdd(seq, key, value) ==
    IF findKey(seq, key) <= Len(seq)
    THEN Append(erase(seq, findKey(seq, key)), Datum(key, value))
    ELSE Append(seq, Datum(key, value))

\* ExifData::operator[](key) followed by Exifdatum::operator=(value):
\* the datum of the key is found, or appended when there is none, and its
\* value is set.
exifAssign(seq, key, value) ==
    LET pos == findKey(seq, key)
    IN  IF pos <= Len(seq) THEN setValueAt(seq, pos, value)
        ELSE Append(seq, Datum(key, value))

\* A variant that also writes the new Exif store through to the file.
setExifTagValueThrough(s, key, value) ==
    /\ IF ~CHECK_METADATA_READ(s)
       THEN Throws("setExifTagValue", s, METADATA_NOT_READ, key, 1)
       ELSE IF ~validExifKey(key)
       THEN Throws("setExifTagValue", s, INVALID_KEY, key, 1)
       ELSE /\ exifData' = [exifData EXCEPT ![storeAt[s].exif] = exifAssign(@, key, value)]
            /\ stream' = [stream EXCEPT ![filename[s]].exif =
                             sortByTag(exifAssign(Exif(s), key, value))]
            /\ UNCHANGED <<dataRead, storeAt, copied, imageData, shown, iptcData, xmpData, io, aborted, obj>>
            /\ Returns("setExifTagValue", s, NO_ERROR, key, 1, <<>>)

\* Image::setExifTagValue
setExifTagValue(s, key, value) ==
    /\ IF ~CHECK_METADATA_READ(s)
       THEN Throws("setExifTagValue", s, METADATA_NOT_READ, key, 1)
       ELSE IF ~validExifKey(key)
       THEN Throws("setExifTagValue", s, INVALID_KEY, key, 1)
       ELSE /\ exifData' = [exifData EXCEPT ![storeAt[s].exif] = exifAssign(@, key, value)]
            /\ UNCHANGED <<dataRead, storeAt, copied, imageData, shown, iptcData, xmpData, stream, io, aborted, obj>>
            /\ Returns("setExifTagValue", s, NO_ERROR, key, 1, <<>>)

\* A variant that returns normally when the key has no datum.
deleteExifTagLenient(s, key) ==
    /\ IF ~CHECK_METADATA_READ(s)
       THEN Throws("deleteExifTag", s, METADATA_NOT_READ, key, 0)
       ELSE IF ~validExifKey(key)
       THEN Throws("deleteExifTag", s, INVALID_KEY, key, 0)
       ELSE /\ exifData' = [exifData EXCEPT ![storeAt[s].exif] =
                               IF findKey(@, key) > Len(@) THEN @ ELSE erase(@, findKey(@, key))]
            /\ UNCHANGED <<dataRead, storeAt, copied, imageData, shown, iptcData, xmpData, stream, io, aborted, obj>>
            /\ Returns("deleteExifTag", s, NO_ERROR, key, 0, <<>>)

\* Image::deleteExifTag
deleteExifTag(s, key) ==
    /\ IF ~CHECK_METADATA_READ(s)
       THEN Throws("deleteExifTag", s, METADATA_NOT_READ, key, 0)
       ELSE IF ~validExifKey(key)
       THEN Throws("deleteExifTag", s, INVALID_KEY, key, 0)
       ELSE IF findKey(Exif(s), key) > Len(Exif(s))
       THEN Throws("deleteExifTag", s, KEY_NOT_FOUND, key, 0)
       ELSE /\ exifData' = [exifData EXCEPT ![storeAt[s].exif] = erase(@, findKey(@, key))]
            /\ UNCHANGED <<dataRead, storeAt, copied, imageData, shown, iptcData, xmpData, stream, io, aborted, obj>>
            /\ Returns("deleteExifTag", s, NO_ERROR, key, 0, <<>>)

\* -------------------------------------------------------------- IPTC store
\* Exiv2::IptcKey(key) throws on a string that is not an IPTC key.
validIptcKey(key) == key \in IptcKeys

\* A variant of the loop of iptcKeys that appends the key of every datum.
everyKey(seq, keys) == keys \o keysOf(seq)

RECURSIVE uniqueKeys(_, _)
\* The loop of iptcKeys: a key is appended if and only if keys.count is 0.
uniqueKeys(seq, keys) ==
    IF seq = <<>> THEN keys
    ELSE uniqueKeys(Tail(seq),
                    IF \E i \in 1..Len(keys) : keys[i] = Head(seq).key
                    THEN keys ELSE Append(keys, Head(seq).key))

\* Image::iptcKeys
iptcKeys(s) ==
    /\ IF ~CHECK_METADATA_READ(s)
       THEN Throws("iptcKeys", s, METADATA_NOT_READ, "", 0)
       ELSE /\ UNCHANGED <<dataRead, storeAt, copied, imageData, shown, exifData, iptcData, xmpData, stream, io, aborted, obj>>
            /\ Returns("iptcKeys", s, NO_ERROR, "", 0, uniqueKeys(Iptc(s), <<>>))

\* A variant that copies every datum of the store.
allValues(seq, key) == [i \in 1..Len(seq) |-> seq[i].value]

\* The values that IptcTag::getRawValues lists (toString of each datum)
\* for the datums copied by getIptcTag: those of the key, in store order.
iptcValuesOf(seq, key) ==
    LET idx == SelectIdx(seq, key, 1)
    IN  [i \in 1..Len(idx) |-> seq[idx[i]].value]

\* Image::getIptcTag (the IptcTag constructor refuses more than one datum
\* of a non-repeatable key)
getIptcTag(s, key) ==
    /\ IF ~CHECK_METADATA_READ(s)
       THEN Throws("getIptcTag", s, METADATA_NOT_READ, key, 0)
       ELSE IF ~validIptcKey(key)
       THEN Throws("getIptcTag", s, INVALID_KEY, key, 0)
       ELSE IF findKey(Iptc(s), key) > Len(Iptc(s))
       THEN Throws("getIptcTag", s, KEY_NOT_FOUND, key, 0)
       ELSE IF ~dataSetRepeatable(key) /\ Len(iptcValuesOf(Iptc(s), key)) > 1
       THEN Throws("getIptcTag", s, NON_REPEATABLE, key, 0)
       ELSE /\ UNCHANGED <<dataRead, storeAt, copied, imageData, shown, exifData, iptcData, xmpData, stream, io, aborted, obj>>
            /\ Returns("getIptcTag", s, NO_ERROR, key, 0, iptcValuesOf(Iptc(s), key))

\* A variant of the second loop that erases one datum and stops.
eraseOne(seq, key, it) == IF it > Len(seq) THEN seq ELSE erase(seq, it)

RECURSIVE eraseRemaining(_, _, _)
\* Second loop of setIptcTagValues: erase(dataIterator), then find_if from
\* the same position, which now designates the datum that followed.
eraseRemaining(seq, key, it) ==
    IF it > Len(seq) THEN seq
    ELSE eraseRemaining(erase(seq, it), key, FindFrom(erase(seq, it), key, it))

RECURSIVE setValuesLoop(_, _, _, _)
\* First loop of setIptcTagValues, from dataIterator = it with the values
\* still to assign.  Yields the store and the error code the call ends with.
setValuesLoop(seq, key, values, it) ==
    IF values = <<>>
    THEN [store |-> eraseRemaining(seq, key, it), err |-> NO_ERROR]
    ELSE IF it <= Len(seq)
    THEN \* Override an existing value
         setValuesLoop(setValueAt(seq, it, Head(values)), key, Tail(values),
                       FindFrom(seq, key, it + 1))
    ELSE \* Append a new value
         IF iptcAddState(seq, key) = ADD_NOT_REPEATABLE
         THEN [store |-> seq, err |-> NON_REPEATABLE]
         ELSE setValuesLoop(iptcAdd(seq, Datum(key, Head(values))), key,
                            Tail(values), Len(seq) + 2)

\* Image::setIptcTagValues
setIptcTagValues(s, key, values) ==
    /\ IF ~CHECK_METADATA_READ(s)
       THEN Throws("setIptcTagValues", s, METADATA_NOT_READ, key, Len(values))
       ELSE IF ~validIptcKey(key)
       THEN Throws("setIptcTagValues", s, INVALID_KEY, key, Len(values))
       ELSE LET r == setValuesLoop(Iptc(s), key, values, findKey(Iptc(s), key))
            IN  /\ iptcData' = [iptcData EXCEPT ![storeAt[s].iptc] = r.store]
                /\ UNCHANGED <<dataRead, storeAt, copied, imageData, shown, exifData, xmpData, stream, io, aborted, obj>>
                /\ Returns("setIptcTagValues", s, r.err, key, Len(values), <<>>)

RECURSIVE deleteLoop(_, _, _)
\* The loop of deleteIptcTag: erase(dataIterator), then find_if from
\* ++dataIterator.  After erase the iterator designates the datum that
\* followed the erased one, so the increment steps over it; when the erased
\* datum was the last one the increment leaves the iterator beyond end()
\* (outOfRange), and find_if starts outside the container.
deleteLoop(seq, key, it) ==
    IF it > Len(seq) THEN [store |-> seq, outOfRange |-> FALSE]
    ELSE LET rest == erase(seq, it)
         IN  IF it + 1 > Len(rest) + 1
             THEN [store |-> rest, outOfRange |-> TRUE]
             ELSE deleteLoop(rest, key, FindFrom(rest, key, it + 1))

\* Image::deleteIptcTag.  A find_if started beyond end() either returns
\* end() at once (the loop count is negative) or reads foreign memory and
\* ends the process.
deleteIptcTag(s, key) ==
    /\ IF ~CHECK_METADATA_READ(s)
       THEN Throws("deleteIptcTag", s, METADATA_NOT_READ, key, 0)
       ELSE IF ~validIptcKey(key)
       THEN Throws("deleteIptcTag", s, INVALID_KEY, key, 0)
       ELSE IF findKey(Iptc(s), key) > Len(Iptc(s))
       THEN Throws("deleteIptcTag", s, KEY_NOT_FOUND, key, 0)
       ELSE LET r == deleteLoop(Iptc(s), key, findKey(Iptc(s), key))
            IN  /\ iptcData' = [iptcData EXCEPT ![storeAt[s].iptc] = r.store]
                /\ \E fault \in {FALSE, r.outOfRange} : aborted' = fault
                /\ UNCHANGED <<dataRead, storeAt, copied, imageData, shown, exifData, xmpData, stream, io, obj>>
                /\ Returns("deleteIptcTag", s, NO_ERROR, key, 0, <<>>)

\* --------------------------------------------------------------- XMP store
\* Exiv2::XmpKey(key) throws on a string that is not an XMP key.
validXmpKey(key) == key \in XmpKeys

\* Image::xmpKeys
xmpKeys(s) ==
    /\ IF ~CHECK_METADATA_READ(s)
       THEN Throws("xmpKeys", s, METADATA_NOT_READ, "", 0)
       ELSE /\ UNCHANGED <<dataRead, storeAt, copied, imageData, shown, exifData, iptcData, xmpData, stream, io, aborted, obj>>
            /\ Returns("xmpKeys", s, NO_ERROR, "", 0, keysOf(Xmp(s)))

\* Image::getXmpTag
getXmpTag(s, key) ==
    /\ IF ~CHECK_METADATA_READ(s)
       THEN Throws("getXmpTag", s, METADATA_NOT_READ, key, 0)
       ELSE IF ~validXmpKey(key)
       THEN Throws("getXmpTag", s, INVALID_KEY, key, 0)
       ELSE IF findKey(Xmp(s), key) > Len(Xmp(s))
       THEN Throws("getXmpTag", s, KEY_NOT_FOUND, key, 0)
       ELSE /\ UNCHANGED <<dataRead, storeAt, copied, imageData, shown, exifData, iptcData, xmpData, stream, io, aborted, obj>>
            /\ Returns("getXmpTag", s, NO_ERROR, key, 0,
                       <<Xmp(s)[findKey(Xmp(s), key)].value>>)

\* XmpData::operator[](key): the store with a datum of the key, appended
\* without a value when there was none.
xmpSubscript(seq, key) ==
    IF findKey(seq, key) <= Len(seq) THEN seq ELSE Append(seq, Datum(key, NoValue))

\* Image::setXmpTagTextValue: _xmpData[key].setValue(value)
xmpSetText(seq, key, value) ==
    LET st  == xmpSubscript(seq, key)
        pos == findKey(st, key)
    IN  [st EXCEPT ![pos] = xmpSetValue(@, PlainString(value))]

\* Image::setXmpTagArrayValue and Image::setXmpTagLangAltValue:
\* datum.setValue(0), then datum.setValue(str) for each string.
xmpResetAndSet(seq, key, strs) ==
    LET st  == xmpSubscript(seq, key)
        pos == findKey(st, key)
    IN  [st EXCEPT ![pos] = xmpSetValues([@ EXCEPT !.value = NoValue], strs)]

setXmpTagTextValue(s, key, value) ==
    /\ IF ~CHECK_METADATA_READ(s)
       THEN Throws("setXmpTagTextValue", s, METADATA_NOT_READ, key, 1)
       ELSE IF ~validXmpKey(key)
       THEN Throws("setXmpTagTextValue", s, INVALID_KEY, key, 1)
       ELSE /\ xmpData' = [xmpData EXCEPT ![storeAt[s].xmp] = xmpSetText(@, key, value)]
            /\ UNCHANGED <<dataRead, storeAt, copied, imageData, shown, exifData, iptcData, stream, io, aborted, obj>>
            /\ Returns("setXmpTagTextValue", s, NO_ERROR, key, 1, <<>>)

setXmpTagArrayValue(s, key, values) ==
    /\ IF ~CHECK_METADATA_READ(s)
       THEN Throws("setXmpTagArrayValue", s, METADATA_NOT_READ, key, Len(values))
       ELSE IF ~validXmpKey(key)
       THEN Throws("setXmpTagArrayValue", s, INVALID_KEY, key, Len(values))
       ELSE /\ xmpData' = [xmpData EXCEPT ![storeAt[s].xmp] =
                   xmpResetAndSet(@, key, [i \in 1..Len(values) |-> PlainString(values[i])])]
            /\ UNCHANGED <<dataRead, storeAt, copied, imageData, shown, exifData, iptcData, stream, io, aborted, obj>>
            /\ Returns("setXmpTagArrayValue", s, NO_ERROR, key, Len(values), <<>>)

\* values: the items of the dict in the order the iteration yields them,
\* each a pair <<lang, text>>.
setXmpTagLangAltValue(s, key, values) ==
    /\ IF ~CHECK_METADATA_READ(s)
       THEN Throws("setXmpTagLangAltValue", s, METADATA_NOT_READ, key, Len(values))
       ELSE IF ~validXmpKey(key)
       THEN Throws("setXmpTagLangAltValue", s, INVALID_KEY, key, Len(values))
       ELSE /\ xmpData' = [xmpData EXCEPT ![storeAt[s].xmp] =
                   xmpResetAndSet(@, key,
                       [i \in 1..Len(values) |-> LangString(values[i][1], values[i][2])])]
            /\ UNCHANGED <<dataRead, storeAt, copied, imageData, shown, exifData, iptcData, stream, io, aborted, obj>>
            /\ Returns("setXmpTagLangAltValue", s, NO_ERROR, key, Len(values), <<>>)

\* Image::deleteXmpTag
deleteXmpTag(s, key) ==
    /\ IF ~CHECK_METADATA_READ(s)
       THEN Throws("deleteXmpTag", s, METADATA_NOT_READ, key, 0)
       ELSE IF ~validXmpKey(key)
       THEN Throws("deleteXmpTag", s, INVALID_KEY, key, 0)
       ELSE IF findKey(Xmp(s), key) > Len(Xmp(s))
       THEN Throws("deleteXmpTag", s, KEY_NOT_FOUND, key, 0)
       ELSE /\ xmpData' = [xmpData EXCEPT ![storeAt[s].xmp] = erase(@, findKey(@, key))]
            /\ UNCHANGED <<dataRead, storeAt, copied, imageData, shown, exifData, iptcData, stream, io, aborted, obj>>
            /\ Returns("deleteXmpTag", s, NO_ERROR, key, 0, <<>>)

\* ------------------------------------------------------------ copyMetadata
\* A variant of the assignment that adds the datums of the source to those
\* the target holds.
assignStoreMerging(target, source) == target \o source

\* other._xxxData = _xxxData: the assignment operator of the store replaces
\* the datums of the target by copies of the datums of the source.
assignStore(target, source) == source

\* A variant that makes the members of the target refer to the store
\* objects of the source.
shareStores(s, other, exif, iptc, xmp) ==
    /\ storeAt' = [storeAt EXCEPT ![other] =
                     [exif |-> IF exif THEN storeAt[s].exif ELSE @.exif,
                      iptc |-> IF iptc THEN storeAt[s].iptc ELSE @.iptc,
                      xmp  |-> IF xmp THEN storeAt[s].xmp ELSE @.xmp]]
    /\ UNCHANGED <<exifData, iptcData, xmpData>>

\* The three guarded assignments of copyMetadata.
copyStores(s, other, exif, iptc, xmp) ==
    /\ exifData' = IF exif
        THEN [exifData EXCEPT ![storeAt[other].exif] = assignStore(@, Exif(s))]
        ELSE exifData
    /\ iptcData' = IF iptc
        THEN [iptcData EXCEPT ![storeAt[other].iptc] = assignStore(@, Iptc(s))]
        ELSE iptcData
    /\ xmpData' = IF xmp
        THEN [xmpData EXCEPT ![storeAt[other].xmp] = assignStore(@, Xmp(s))]
        ELSE xmpData
    /\ UNCHANGED storeAt

\* The store kinds a call names, from its three flags.
kindsOf(exif, iptc, xmp) ==
    {k \in StoreKinds : [exif |-> exif, iptc |-> iptc, xmp |-> xmp][k]}

\* A variant that looks at _dataRead of the source only.
copyMetadataTargetUnchecked(s, other, exif, iptc, xmp) ==
    /\ IF ~CHECK_METADATA_READ(s)
       THEN Throws("copyMetadata", s, METADATA_NOT_READ, other, 0)
       ELSE /\ copyStores(s, other, exif, iptc, xmp)
            /\ copied' = IF s = other THEN copied ELSE copied \cup kindsOf(exif, iptc, xmp)
            /\ UNCHANGED <<dataRead, imageData, shown, stream, io, aborted, obj>>
            /\ Returns("copyMetadata", s, NO_ERROR, other, 0, <<exif, iptc, xmp>>)

\* Image::copyMetadata; last.ret holds the three flags.
copyMetadata(s, other, exif, iptc, xmp) ==
    /\ IF ~CHECK_METADATA_READ(s) \/ ~dataRead[other]
       THEN Throws("copyMetadata", s, METADATA_NOT_READ, other, 0)
       ELSE /\ copyStores(s, other, exif, iptc, xmp)
            /\ copied' = IF s = other THEN copied ELSE copied \cup kindsOf(exif, iptc, xmp)
            /\ UNCHANGED <<dataRead, imageData, shown, stream, io, aborted, obj>>
            /\ Returns("copyMetadata", s, NO_ERROR, other, 0, <<exif, iptc, xmp>>)

\* ------------------------------------------------------ LibPyExiv2::Image
\* The class of the library before exiv2wrapper: one Exif and one IPTC store
\* per session, IPTC repetitions addressed by an index (0 is the first).

\* Exifdatum::typeName, Iptcdatum::typeName for the datums of the model.
typeName(key) == IF key \in ExifKeys THEN "Ascii" ELSE "String"

\* LibPyExiv2::Image::readMetadata: an error of Exiv2 leaves the method
\* before the stores are assigned.
LibPyExiv2_readMetadata(s) ==
    \E ok \in BOOLEAN :
       IF ok
       THEN LET m == decode(stream[filename[s]])
            IN  /\ imageData' = [imageData EXCEPT ![s] = m]
                /\ exifData' = [exifData EXCEPT ![storeAt[s].exif] = m.exif]
                /\ iptcData' = [iptcData EXCEPT ![storeAt[s].iptc] = m.iptc]
                /\ dataRead' = [dataRead EXCEPT ![s] = TRUE]
                /\ copied' = {}
                /\ shown' = NoneShown
                /\ UNCHANGED <<xmpData, storeAt, stream, aborted, obj>>
                /\ imageIo(s)
                /\ Returns("readMetadata", s, NO_ERROR, "", 0, <<>>)
       ELSE /\ \E m \in afterFailedRead(s) : imageData' = [imageData EXCEPT ![s] = m]
            /\ shown' = NoneShown
            /\ UNCHANGED <<dataRead, storeAt, copied, exifData, iptcData, xmpData,
                           stream, aborted, obj>>
            /\ imageIo(s)
            /\ Returns("readMetadata", s, READ_FAILED, "", 0, <<>>)

\* LibPyExiv2::Image::setExifTag: the datum of the key, when there is one,
\* is erased, then _exifData[key] = value; returns the type of the tag and
\* the value the erased datum had (last.ret).
setExifTag(s, key, value) ==
    /\ IF ~dataRead[s]
       THEN Throws("setExifTag", s, METADATA_NOT_READ, key, 0)
       ELSE IF ~validExifKey(key)
       THEN Throws("setExifTag", s, INVALID_KEY, key, 0)
       ELSE LET i        == findKey(Exif(s), key)
                found    == i <= Len(Exif(s))
                oldValue == IF found THEN Exif(s)[i].value ELSE ""
                erased   == IF found THEN erase(Exif(s), i) ELSE Exif(s)
            IN  /\ exifData' = [exifData EXCEPT ![storeAt[s].exif] =
                                  exifAssign(erased, key, value)]
                /\ UNCHANGED <<dataRead, storeAt, copied, imageData, shown, iptcData,
                               xmpData, stream, io, aborted, obj>>
                /\ Returns("setExifTag", s, NO_ERROR, key, 0, <<typeName(key), oldValue>>)

\* A variant of the loop that stays on the first datum of the key.
firstOnly(seq, key, dataIterator, indexCounter) == dataIterator

RECURSIVE nthFrom(_, _, _, _)
\* The while loop of setIptcTag and deleteIptcTag: find_if from ++dataIterator
\* as long as indexCounter > 0 and the iterator is not end().
nthFrom(seq, key, dataIterator, indexCounter) ==
    IF indexCounter > 0 /\ dataIterator <= Len(seq)
    THEN nthFrom(seq, key, FindFrom(seq, key, dataIterator + 1), indexCounter - 1)
    ELSE dataIterator

\* dataIterator->setValue(value); ... oldValue = dataIterator->toString();
\* the string is taken from the datum after its value was set.
oldValueOf(seq, dataIterator, value) == setValueAt(seq, dataIterator, value)[dataIterator].value

\* LibPyExiv2::Image::setIptcTag(key, value, index); last.n holds the index
\* and last.ret the tuple returned.
setIptcTag(s, key, value, index) ==
    /\ IF ~dataRead[s]
       THEN Throws("setIptcTag", s, METADATA_NOT_READ, key, index)
       ELSE IF ~validIptcKey(key)
       THEN Throws("setIptcTag", s, INVALID_KEY, key, index)
       ELSE LET dataIterator == nthFrom(Iptc(s), key, findKey(Iptc(s), key), index)
            IN  IF dataIterator <= Len(Iptc(s))
                THEN \* The tag at given index already exists, override it
                     /\ iptcData' = [iptcData EXCEPT ![storeAt[s].iptc] =
                                       setValueAt(@, dataIterator, value)]
                     /\ UNCHANGED <<dataRead, storeAt, copied, imageData, shown, exifData,
                                    xmpData, stream, io, aborted, obj>>
                     /\ Returns("setIptcTag", s, NO_ERROR, key, index,
                                <<typeName(key), oldValueOf(Iptc(s), dataIterator, value)>>)
                ELSE \* Either index is greater than the index of the last
                     \* repetition of the tag, or the tag does not exist yet.
                     \* In both cases, it is created.
                     IF iptcAddState(Iptc(s), key) = ADD_NOT_REPEATABLE
                THEN Throws("setIptcTag", s, NON_REPEATABLE, key, index)
                ELSE /\ iptcData' = [iptcData EXCEPT ![storeAt[s].iptc] =
                                       iptcAdd(@, Datum(key, value))]
                     /\ UNCHANGED <<dataRead, storeAt, copied, imageData, shown, exifData,
                                    xmpData, stream, io, aborted, obj>>
                     /\ Returns("setIptcTag", s, NO_ERROR, key, index, <<typeName(key), "">>)

\* LibPyExiv2::Image::deleteIptcTag(key, index): erases the repetition at
\* the index and returns its type and value.
LibPyExiv2_deleteIptcTag(s, key, index) ==
    /\ IF ~dataRead[s]
       THEN Throws("deleteIptcTag", s, METADATA_NOT_READ, key, index)
       ELSE IF ~validIptcKey(key)
       THEN Throws("deleteIptcTag", s, INVALID_KEY, key, index)
       ELSE LET dataIterator == nthFrom(Iptc(s), key, findKey(Iptc(s), key), index)
            IN  IF dataIterator <= Len(Iptc(s))
                THEN /\ iptcData' = [iptcData EXCEPT ![storeAt[s].iptc] =
                                       erase(@, dataIterator)]
                     /\ UNCHANGED <<dataRead, storeAt, copied, imageData, shown, exifData,
                                    xmpData, stream, io, aborted, obj>>
                     /\ Returns("deleteIptcTag", s, NO_ERROR, key, index,
                                <<typeName(key), Iptc(s)[dataIterator].value>>)
                ELSE Throws("deleteIptcTag", s, KEY_NOT_FOUND, key, index)

\* Indexes handed to setIptcTag and deleteIptcTag.
Indexes == 0..MaxIndex

\* ----------------------------------------------------------------- threads
\* The three methods that release the GIL, step by step.  Each thread works
\* on a session and on an object of its own.

\* The GIL can be given to a thread: no thread holds it, or the thread that
\* holds it is running Python code, where the interpreter takes it back.
canTake ==
    IF threads.holder = "none" THEN TRUE ELSE threads.pc[threads.holder] = "python"

\* The calls that are in their try block.
inTryBlock == {t \in Threads : threads.pc[t] = "io"}

\* A thread running Python code enters _instantiate_image, readMetadata or
\* writeMetadata (past CHECK_METADATA_READ) holding the GIL, and
\* Py_BEGIN_ALLOW_THREADS releases it; error is Exiv2::Error error(0).
Py_BEGIN_ALLOW_THREADS(t, op) ==
    /\ ~aborted
    /\ nops + Cardinality(inTryBlock) < MaxThreadOps
    /\ threads.pc[t] = "python"
    /\ canTake
    /\ op = "writeMetadata" => CHECK_METADATA_READ(sessionOf(t))
    /\ op = "Image" => obj[objectOf(t)].status = "none"
    /\ threads' = [threads EXCEPT !.holder = "none", !.pc[t] = "io", !.op[t] = op,
                                  !.error[t] = NO_ERROR]
    /\ UNCHANGED <<dataRead, storeAt, exifData, iptcData, xmpData, stream, io, last, copied,
                   imageData, shown, obj, aborted, tag, nops>>

\* writeMetadata on a session that was not read: CHECK_METADATA_READ throws
\* before the GIL is released.
checkThrows(t) ==
    /\ ~aborted
    /\ nops + Cardinality(inTryBlock) < MaxThreadOps
    /\ threads.pc[t] = "python"
    /\ canTake
    /\ ~CHECK_METADATA_READ(sessionOf(t))
    /\ writeMetadata(sessionOf(t))
    /\ threads' = [threads EXCEPT !.holder = t, !.op[t] = "writeMetadata",
                                  !.error[t] = NO_ERROR,
                                  !.thrown[t] = METADATA_NOT_READ]
    /\ UNCHANGED tag

\* The try block and its catch clause, run without the GIL: the open, the
\* read or the write is made, and an error of Exiv2 is stored in error.
tryBlock(t) ==
    /\ threads.pc[t] = "io"
    /\ CASE threads.op[t] = "readMetadata"  -> readMetadata(sessionOf(t))
         [] threads.op[t] = "writeMetadata" -> writeMetadata(sessionOf(t))
         [] OTHER -> \E ok \in BOOLEAN :
                        \/ ImageFromFile(objectOf(t), ok)
                        \/ ImageFromBuffer(objectOf(t), ok)
    /\ threads' = [threads EXCEPT !.pc[t] = "done", !.error[t] = last'.raised]
    /\ UNCHANGED tag

\* A variant in which the thread leaves the block without taking the GIL,
\* as it does when an exception passes Py_END_ALLOW_THREADS.
leavesBlock(t) ==
    /\ threads.pc[t] = "done"
    /\ threads' = [threads EXCEPT !.pc[t] = "held"]
    /\ UNCHANGED <<dataRead, storeAt, exifData, iptcData, xmpData, stream, io, last, copied,
                   imageData, shown, obj, aborted, tag, nops>>

\* Py_END_ALLOW_THREADS: the thread waits for the GIL and takes it.
Py_END_ALLOW_THREADS(t) ==
    /\ threads.pc[t] = "done"
    /\ canTake
    /\ threads' = [threads EXCEPT !.holder = t, !.pc[t] = "held"]
    /\ UNCHANGED <<dataRead, storeAt, exifData, iptcData, xmpData, stream, io, last, copied,
                   imageData, shown, obj, aborted, tag, nops>>

\* The end of the method: throw error when its code is not 0, return
\* otherwise; the thread is back in Python code.
throwOrReturn(t) ==
    /\ threads.pc[t] = "held"
    /\ threads' = [threads EXCEPT !.pc[t] = "python",
                                  !.thrown[t] = thrown(threads.error[t])]
    /\ UNCHANGED <<dataRead, storeAt, exifData, iptcData, xmpData, stream, io, last, copied,
                   imageData, shown, obj, aborted, tag, nops>>

\* ------------------------------------------ readMetadata, statement by statement
\* The threads that are between Py_BEGIN_ALLOW_THREADS and
\* Py_END_ALLOW_THREADS of a readMetadata on session s.
readersOf(s) ==
    {u \in Threads : threads.pc[u] \in {"io", "done"} /\ threads.on[u] = s
                                                     /\ threads.op[u] = "readMetadata"}

\* A thread running Python code calls readMetadata on a session that no
\* other thread is reading; Py_BEGIN_ALLOW_THREADS releases the GIL.
beginRead(t, s) ==
    /\ ~aborted
    /\ nops + Cardinality(inTryBlock) < MaxRaceOps
    /\ threads.pc[t] = "python"
    /\ canTake
    /\ readersOf(s) = {}
    /\ threads' = [threads EXCEPT !.holder = "none", !.pc[t] = "io",
                                  !.op[t] = "readMetadata", !.error[t] = NO_ERROR,
                                  !.on[t] = s, !.step[t] = 0,
                                  !.before[t] = [exif |-> Exif(s), iptc |-> Iptc(s),
                                                 xmp |-> Xmp(s), flag |-> dataRead[s]]]
    /\ UNCHANGED <<dataRead, storeAt, exifData, iptcData, xmpData, stream, io, last, copied,
                   imageData, shown, obj, aborted, tag, nops>>

\* The next statement of the try block of readMetadata, run without the GIL:
\* _image->readMetadata(), which may throw; _exifData = _image->exifData();
\* _iptcData = _image->iptcData(); _xmpData = _image->xmpData();
\* _dataRead = true.
readStep(t) ==
    LET s == threads.on[t]
        n == threads.step[t]
    IN  /\ threads.pc[t] = "io"
        /\ threads.op[t] = "readMetadata"
        /\ UNCHANGED <<storeAt, stream, aborted, obj, tag>>
        /\ IF n = 0 THEN imageIo(s) ELSE UNCHANGED io
        /\ CASE n = 0 ->
                  \E ok \in BOOLEAN :
                     /\ shown' = NoneShown
                     /\ UNCHANGED <<dataRead, copied, exifData, iptcData, xmpData>>
                     /\ IF ok
                        THEN /\ imageData' = [imageData EXCEPT ![s] = decode(stream[filename[s]])]
                             /\ threads' = [threads EXCEPT !.step[t] = 1]
                             /\ UNCHANGED <<last, nops>>
                        ELSE /\ \E m \in afterFailedRead(s) :
                                   imageData' = [imageData EXCEPT ![s] = m]
                             /\ threads' = [threads EXCEPT !.pc[t] = "done",
                                                           !.error[t] = READ_FAILED]
                             /\ Rethrows("readMetadata", s, READ_FAILED)
             [] n = 1 ->
                  /\ exifData' = [exifData EXCEPT ![storeAt[s].exif] = imageData[s].exif]
                  /\ threads' = [threads EXCEPT !.step[t] = 2]
                  /\ UNCHANGED <<dataRead, copied, imageData, shown, iptcData, xmpData, last, nops>>
             [] n = 2 ->
                  /\ iptcData' = [iptcData EXCEPT ![storeAt[s].iptc] = imageData[s].iptc]
                  /\ threads' = [threads EXCEPT !.step[t] = 3]
                  /\ UNCHANGED <<dataRead, copied, imageData, shown, exifData, xmpData, last, nops>>
             [] n = 3 ->
                  /\ xmpData' = [xmpData EXCEPT ![storeAt[s].xmp] = imageData[s].xmp]
                  /\ threads' = [threads EXCEPT !.step[t] = 4]
                  /\ UNCHANGED <<dataRead, copied, imageData, shown, exifData, iptcData, last, nops>>
             [] OTHER ->
                  /\ dataRead' = [dataRead EXCEPT ![s] = TRUE]
                  /\ copied' = {}
                  /\ threads' = [threads EXCEPT !.pc[t] = "done"]
                  /\ UNCHANGED <<imageData, shown, exifData, iptcData, xmpData>>
                  /\ Rethrows("readMetadata", s, NO_ERROR)

\* The values that a thread can find in a member which another thread
\* assigns, or has assigned, in a try block it has not left yet: nothing
\* orders the accesses of the two threads, so the value assigned and the
\* value from before the read are both possible.
visible(current, before) == {current, before}

\* A thread running Python code takes the GIL and calls exifKeys, iptcKeys
\* or xmpKeys on session s: CHECK_METADATA_READ, then the keys of the store.
\* last.n tells whether another thread was reading the session meanwhile:
\* 0 no thread, 1 a thread that entered with the flag not set, 2 a thread
\* that entered with the flag set.
keysWhileReading(t, s, kind) ==
    LET racing == readersOf(s) # {}
        u      == CHOOSE r \in readersOf(s) : TRUE
        was    == IF racing THEN threads.before[u]
                  ELSE [exif |-> Exif(s), iptc |-> Iptc(s), xmp |-> Xmp(s),
                        flag |-> dataRead[s]]
        now    == [exif |-> Exif(s), iptc |-> Iptc(s), xmp |-> Xmp(s)]
        op     == CASE kind = "exif" -> "exifKeys" [] kind = "iptc" -> "iptcKeys"
                    [] OTHER -> "xmpKeys"
        n      == IF ~racing THEN 0 ELSE IF was.flag THEN 2 ELSE 1
    IN  /\ ~aborted
        /\ nops + Cardinality(inTryBlock) < MaxRaceOps
        /\ threads.pc[t] = "python"
        /\ canTake
        /\ threads' = [threads EXCEPT !.holder = t]
        /\ UNCHANGED tag
        /\ \E flag \in visible(dataRead[s], was.flag) :
              IF ~flag
              THEN Throws(op, s, METADATA_NOT_READ, "", n)
              ELSE \E store \in visible(now[kind], was[kind]) :
                      /\ UNCHANGED <<dataRead, storeAt, copied, imageData, shown, exifData,
                                     iptcData, xmpData, stream, io, aborted, obj>>
                      /\ Returns(op, s, NO_ERROR, "", n, keysOf(store))

\* Python threads that open objects and read and write their sessions.
NextThreads ==
    \/ \E t \in Threads, op \in {"Image", "readMetadata", "writeMetadata"} :
          Py_BEGIN_ALLOW_THREADS(t, op)
    \/ \E t \in Threads : checkThrows(t)
    \/ \E t \in Threads : tryBlock(t)
    \/ \E t \in Threads : Py_END_ALLOW_THREADS(t)
    \/ \E t \in Threads : throwOrReturn(t)

SpecThreads == Init /\ [][NextThreads]_vars

\* Python threads that read the sessions and list their keys, on any
\* session, while other threads do.
NextRace ==
    \/ \E t \in Threads, s \in Sessions : beginRead(t, s)
    \/ \E t \in Threads : readStep(t)
    \/ \E t \in Threads : Py_END_ALLOW_THREADS(t)
    \/ \E t \in Threads : throwOrReturn(t)
    \/ \E t \in Threads, s \in Sessions, kind \in StoreKinds : keysWhileReading(t, s, kind)

SpecRace == Init /\ [][NextRace]_vars

\* ----------------------------------------------------------------- IptcTag
\* A call on an IptcTag object ends: its outcome is recorded.
TagEnds(op, o, err, key, n, ret) ==
    /\ last' = Result(op, o, err, key, n, ret, FALSE, tag' # tag, err)
    /\ nops' = nops + 1
    /\ UNCHANGED <<dataRead, storeAt, exifData, iptcData, xmpData, stream, io, copied,
                   imageData, shown, obj, aborted, threads>>

\* A variant of the test that lets any number of values through.
refusesNothing(repeatable, size) == FALSE

\* The test of the constructor and of setRawValues:
\* !_repeatable && (size > 1)
refusesValues(repeatable, size) == ~repeatable /\ size > 1

\* The datums of _key that carry the given values.
datumsOf(key, values) == [i \in 1..Len(values) |-> Datum(key, values[i])]

\* IptcTag::IptcTag(key, data).  data is the list of the values of the
\* datums handed over (as Image::getIptcTag does, at least one), or <<>>
\* for data = 0: the tag then owns one datum of the key without a value.
\* Exiv2::IptcKey(key) throws on a string that is not an IPTC key.
IptcTag(o, key, data) ==
    /\ tag[o].status # "live"
    /\ IF ~validIptcKey(key)
       THEN /\ tag' = [tag EXCEPT ![o] = [NoTag EXCEPT !.status = "failed"]]
            /\ TagEnds("IptcTag", o, INVALID_KEY, key, Len(data), <<>>)
       ELSE LET _data == IF data = <<>> THEN <<Datum(key, "")>> ELSE datumsOf(key, data)
            IN  IF refusesValues(dataSetRepeatable(key), Len(_data))
                THEN /\ tag' = [tag EXCEPT ![o] = [NoTag EXCEPT !.status = "failed"]]
                     /\ TagEnds("IptcTag", o, NON_REPEATABLE, key, Len(data), <<>>)
                ELSE /\ tag' = [tag EXCEPT ![o] = [NoTag EXCEPT !.status = "live", !.key = key, !.data = _data]]
                     /\ TagEnds("IptcTag", o, NO_ERROR, key, Len(data), <<>>)

\* IptcTag::~IptcTag
destroyIptcTag(o) ==
    /\ tag[o].status = "live"
    /\ tag' = [tag EXCEPT ![o] = NoTag]
    /\ TagEnds("~IptcTag", o, NO_ERROR, tag[o].key, 0, <<>>)

\* A variant for a tag whose _data is the store of the session it was got
\* from: the values go to that store as well.
setRawValuesOfStore(o, values) ==
    /\ tag[o].status = "live"
    /\ IF refusesValues(dataSetRepeatable(tag[o].key), Len(values)) \/ tag[o].kind # "iptc"
       THEN UNCHANGED <<tag, iptcData>>
       ELSE /\ tag' = [tag EXCEPT ![o].data = datumsOf(tag[o].key, values)]
            /\ iptcData' = [iptcData EXCEPT ![storeAt[tag[o].of].iptc] =
                                datumsOf(tag[o].key, values)]
    /\ last' = Result("setRawValues", o, NO_ERROR, tag[o].key, Len(values), <<>>,
                      FALSE, tag' # tag, NO_ERROR)
    /\ nops' = nops + 1
    /\ UNCHANGED <<dataRead, storeAt, exifData, xmpData, stream, io, copied,
                   imageData, shown, obj, aborted, threads>>

\* IptcTag::setRawValues
setRawValues(o, values) ==
    /\ tag[o].status = "live"
    /\ IF refusesValues(dataSetRepeatable(tag[o].key), Len(values))
       THEN /\ UNCHANGED tag
            /\ TagEnds("setRawValues", o, NON_REPEATABLE, tag[o].key, Len(values), <<>>)
       ELSE /\ tag' = [tag EXCEPT ![o].data = datumsOf(tag[o].key, values)]
            /\ TagEnds("setRawValues", o, NO_ERROR, tag[o].key, Len(values), <<>>)

\* IptcTag::getRawValues
getRawValues(o) ==
    /\ tag[o].status = "live"
    /\ UNCHANGED tag
    /\ TagEnds("getRawValues", o, NO_ERROR, tag[o].key, 0,
               [i \in 1..Len(tag[o].data) |-> tag[o].data[i].value])

\* The tag that Image::getIptcTag returns: IptcTag(key, data), where data is
\* a new Exiv2::IptcMetadata into which push_back(*iterator) has copied each
\* datum of the key (the copy of an Iptcdatum clones its value).  The tag
\* holds datums of its own; `of` records the session it was got from.
IptcTagOfImage(o, s, key) ==
    /\ tag[o].status = "none"
    /\ getIptcTag(s, key)
    /\ tag' = IF last'.err # NO_ERROR THEN tag
              ELSE [tag EXCEPT ![o] = [NoTag EXCEPT !.status = "live", !.key = key,
                                         !.data = datumsOf(key, last'.ret),
                                         !.kind = "iptc", !.of = s, !._datum = "copy"]]
    /\ UNCHANGED threads

\* ----------------------------------------------------------- getDataBuffer
\* buffer.resize(size, ' '): what a place of the buffer holds until a read
\* fills it.
Blank == <<" ", <<>>>>

RECURSIVE fill(_, _, _, _)
\* for (i = 0; i < size; ++i) io.read((Exiv2::byte*) &buffer[i], 1);
\* from place i of the buffer on.
fill(r, bytes, buffer, i) ==
    IF i > Len(buffer) THEN [io |-> r, buffer |-> buffer]
    ELSE LET got == read(r, bytes, buffer[i])
         IN  fill(got.io, bytes, [buffer EXCEPT ![i] = got.byte], i + 1)

\* Image::getDataBuffer.  There is no CHECK_METADATA_READ.  pos is -1 when
\* the stream was found closed.
getDataBuffer(s) ==
    LET bytes  == bytesOf(stream[filename[s]])
        size   == Len(bytes)
        pos    == IF io[s].isopen THEN io[s].pos ELSE 0 - 1
        begun  == IF io[s].isopen THEN seek(io[s], 0) ELSE open(io[s])
        filled == fill(begun, bytes, [i \in 1..size |-> Blank], 1)
        ended  == IF pos = 0 - 1 THEN close(filled.io) ELSE seek(filled.io, pos)
    IN  /\ io' = [io EXCEPT ![s] = ended]
        /\ UNCHANGED <<dataRead, storeAt, copied, imageData, shown, exifData, iptcData,
                       xmpData, stream, aborted, obj>>
        /\ Returns("getDataBuffer", s, NO_ERROR, "", size, filled.buffer)

\* ------------------------------------------------------- ExifTag and XmpTag
\* What the _datum pointer of a tag designates after a call on the session
\* it was got from.  The store has been assigned as a whole (readMetadata,
\* copyMetadata into the session): the datums it held are assigned or
\* destroyed, and the pointer designates the datum of the key only where a
\* datum of that key took the place of the old one (lucky).  The datum was
\* erased: the pointer designates no datum.  A datum of another key was
\* added or erased: the datums of the Exif store, a list, stay where they
\* are; those of the XMP store, a vector, move when the vector grows beyond
\* its capacity (lucky: it does not) or when a datum before them is erased.
datumAfter(r, lucky) ==
    LET old == IF r.kind = "exif" THEN Exif(r.of) ELSE Xmp(r.of)
        new == IF r.kind = "exif" THEN exifData'[storeAt'[r.of].exif]
               ELSE xmpData'[storeAt'[r.of].xmp]
        assigned ==
            /\ last'.err = NO_ERROR
            /\ IF last'.op = "readMetadata" THEN last'.s = r.of
               ELSE IF last'.op = "copyMetadata"
               THEN last'.key = r.of /\ last'.ret[IF r.kind = "exif" THEN 1 ELSE 3]
               ELSE FALSE
        hasKey == findKey(new, r.key) <= Len(new)
    IN  IF r.status # "live" \/ r.kind \notin {"exif", "xmp"} \/ r._datum # "datum"
        THEN r._datum
        ELSE IF assigned THEN (IF hasKey /\ lucky THEN "datum" ELSE "stale")
        ELSE IF new = old THEN "datum"
        ELSE IF ~hasKey THEN "stale"
        ELSE IF r.kind = "exif" THEN "datum"
        ELSE IF Len(new) > Len(old) THEN (IF lucky THEN "datum" ELSE "stale")
        ELSE IF findKey(new, r.key) = findKey(old, r.key) THEN "datum"
        ELSE "stale"

\* The tags there are live through a call on a session.
tagsFollow ==
    /\ \E lucky \in BOOLEAN :
          tag' = [o \in Tags |-> [tag[o] EXCEPT !._datum = datumAfter(tag[o], lucky)]]
    /\ UNCHANGED threads

\* Image::getExifTag returns ExifTag(key, &_exifData[key], &_exifData):
\* the tag keeps the address of the datum in the store.
ExifTag(o, s, key) ==
    /\ tag[o].status = "none"
    /\ getExifTag(s, key)
    /\ tag' = IF last'.err # NO_ERROR THEN tag
              ELSE [tag EXCEPT ![o] = [NoTag EXCEPT !.status = "live", !.key = key,
                                         !.kind = "exif", !.of = s, !._datum = "datum"]]
    /\ UNCHANGED threads

\* Image::getXmpTag returns XmpTag(key, &_xmpData[key]).
XmpTag(o, s, key) ==
    /\ tag[o].status = "none"
    /\ getXmpTag(s, key)
    /\ tag' = IF last'.err # NO_ERROR THEN tag
              ELSE [tag EXCEPT ![o] = [NoTag EXCEPT !.status = "live", !.key = key,
                                         !.kind = "xmp", !.of = s, !._datum = "datum"]]
    /\ UNCHANGED threads

\* ExifTag::getRawValue, and the getters of XmpTag: _datum->toString().
\* Through a pointer that designates no datum of the store the call reads
\* memory that was freed or that holds something else: it returns any
\* value, or the process is stopped.
getRawValue(o) ==
    /\ tag[o].status = "live"
    /\ tag[o].kind \in {"exif", "xmp"}
    /\ LET r   == tag[o]
           st  == IF r.kind = "exif" THEN Exif(r.of) ELSE Xmp(r.of)
       IN  IF r._datum = "datum"
           THEN /\ last' = Result("getRawValue", o, NO_ERROR, r.key, 0,
                                  <<st[findKey(st, r.key)].value>>, FALSE, FALSE, NO_ERROR)
                /\ UNCHANGED aborted
           ELSE /\ \E v \in Values \cup {""} :
                      last' = Result("getRawValue", o, NO_ERROR, r.key, 0, <<v>>,
                                     FALSE, FALSE, NO_ERROR)
                /\ \E fault \in BOOLEAN : aborted' = fault
    /\ nops' = nops + 1
    /\ UNCHANGED <<dataRead, storeAt, exifData, iptcData, xmpData, stream, io, copied,
                   imageData, shown, obj, threads, tag>>

\* ------------------------------------------------------------------ inputs
ExifKeyInputs == ExifKeys \cup {BadKey}
IptcKeyInputs == IptcKeys \cup {BadKey}
\* The callers other than those of SpecXmp name the text key.
XmpKeyInputs == {XmpTextKey, BadKey}

\* Lists of at most n values.
ListsUpTo(n) == UNION {[1..k -> Values] : k \in 0..n}

Langs == {"x-default", "fr"}
\* The items of a dict (one entry per language) in iteration order.
LangAltInputs ==
    {d \in UNION {[1..k -> Langs \X Values] : k \in 0..MaxLangs} :
        \A i, j \in 1..Len(d) : i # j => d[i][1] # d[j][1]}

\* -------------------------------------------------------------------- Next
Next ==
    \/ \E s \in Sessions : Sequential(MaxOps) /\ readMetadata(s)
    \/ \E s \in Sessions : Sequential(MaxOps) /\ writeMetadata(s)
    \/ \E s \in Sessions : Sequential(MaxOps) /\ pixelWidth(s)
    \/ \E s \in Sessions : Sequential(MaxOps) /\ pixelHeight(s)
    \/ \E s \in Sessions : Sequential(MaxOps) /\ mimeType(s)
    \/ \E s \in Sessions : Sequential(MaxOps) /\ previews(s)
    \/ \E s \in Sessions : Sequential(MaxOps) /\ exifKeys(s)
    \/ \E s \in Sessions, k \in ExifKeyInputs : Sequential(MaxOps) /\ getExifTag(s, k)
    \/ \E s \in Sessions, k \in ExifKeyInputs, v \in Values :
          Sequential(MaxOps) /\ setExifTagValue(s, k, v)
    \/ \E s \in Sessions, k \in ExifKeyInputs : Sequential(MaxOps) /\ deleteExifTag(s, k)
    \/ \E s \in Sessions : Sequential(MaxOps) /\ iptcKeys(s)
    \/ \E s \in Sessions, k \in IptcKeyInputs : Sequential(MaxOps) /\ getIptcTag(s, k)
    \/ \E s \in Sessions, k \in IptcKeyInputs, vs \in ListsUpTo(MaxValues) :
          Sequential(MaxOps) /\ setIptcTagValues(s, k, vs)
    \/ \E s \in Sessions, k \in IptcKeyInputs : Sequential(MaxOps) /\ deleteIptcTag(s, k)
    \/ \E s \in Sessions : Sequential(MaxOps) /\ xmpKeys(s)
    \/ \E s \in Sessions, k \in XmpKeyInputs : Sequential(MaxOps) /\ getXmpTag(s, k)
    \/ \E s \in Sessions, k \in XmpKeyInputs, v \in Values :
          Sequential(MaxOps) /\ setXmpTagTextValue(s, k, v)
    \/ \E s \in Sessions, k \in XmpKeyInputs, vs \in ListsUpTo(MaxValues) :
          Sequential(MaxOps) /\ setXmpTagArrayValue(s, k, vs)
    \/ \E s \in Sessions, k \in XmpKeyInputs, d \in LangAltInputs :
          Sequential(MaxOps) /\ setXmpTagLangAltValue(s, k, d)
    \/ \E s \in Sessions, k \in XmpKeyInputs : Sequential(MaxOps) /\ deleteXmpTag(s, k)
    \/ \E s, other \in Sessions, exif, iptc, xmp \in BOOLEAN :
          Sequential(MaxOps) /\ copyMetadata(s, other, exif, iptc, xmp)

Spec == Init /\ [][Next]_vars

\* Clients that only make the calls that change a store, the read flag or
\* the stream (no key listing, no tag or property getter).
NextEdit ==
    \/ \E s \in Sessions : Sequential(MaxEdits) /\ readMetadata(s)
    \/ \E s \in Sessions : Sequential(MaxEdits) /\ writeMetadata(s)
    \/ \E s \in Sessions, k \in ExifKeyInputs, v \in Values :
          Sequential(MaxEdits) /\ setExifTagValue(s, k, v)
    \/ \E s \in Sessions, k \in ExifKeyInputs : Sequential(MaxEdits) /\ deleteExifTag(s, k)
    \/ \E s \in Sessions, k \in IptcKeyInputs, vs \in ListsUpTo(MaxValues) :
          Sequential(MaxEdits) /\ setIptcTagValues(s, k, vs)
    \/ \E s \in Sessions, k \in IptcKeyInputs : Sequential(MaxEdits) /\ deleteIptcTag(s, k)
    \/ \E s \in Sessions, k \in XmpKeyInputs, v \in Values :
          Sequential(MaxEdits) /\ setXmpTagTextValue(s, k, v)
    \/ \E s \in Sessions, k \in XmpKeyInputs, vs \in ListsUpTo(MaxValues) :
          Sequential(MaxEdits) /\ setXmpTagArrayValue(s, k, vs)
    \/ \E s \in Sessions, k \in XmpKeyInputs, d \in LangAltInputs :
          Sequential(MaxEdits) /\ setXmpTagLangAltValue(s, k, d)
    \/ \E s \in Sessions, k \in XmpKeyInputs : Sequential(MaxEdits) /\ deleteXmpTag(s, k)
    \/ \E s, other \in Sessions, exif, iptc, xmp \in BOOLEAN :
          Sequential(MaxEdits) /\ copyMetadata(s, other, exif, iptc, xmp)

SpecEdit == Init /\ [][NextEdit]_vars

\* Clients that look at the previews between reads, writes, copies and
\* changes of the Exif store.
NextView ==
    \/ \E s \in Sessions : Sequential(MaxViews) /\ readMetadata(s)
    \/ \E s \in Sessions : Sequential(MaxViews) /\ writeMetadata(s)
    \/ \E s \in Sessions : Sequential(MaxViews) /\ previews(s)
    \/ \E s \in Sessions, k \in ExifKeyInputs, v \in Values :
          Sequential(MaxViews) /\ setExifTagValue(s, k, v)
    \/ \E s \in Sessions, k \in ExifKeyInputs : Sequential(MaxViews) /\ deleteExifTag(s, k)
    \/ \E s, other \in Sessions, exif, iptc, xmp \in BOOLEAN :
          Sequential(MaxViews) /\ copyMetadata(s, other, exif, iptc, xmp)

SpecView == Init /\ [][NextView]_vars

\* Clients of LibPyExiv2::Image.
NextLib ==
    \/ \E s \in Sessions : Sequential(MaxLibOps) /\ LibPyExiv2_readMetadata(s)
    \/ \E s \in Sessions, k \in ExifKeyInputs, v \in Values :
          Sequential(MaxLibOps) /\ setExifTag(s, k, v)
    \/ \E s \in Sessions, k \in IptcKeyInputs, v \in Values, i \in Indexes :
          Sequential(MaxLibOps) /\ setIptcTag(s, k, v, i)
    \/ \E s \in Sessions, k \in IptcKeyInputs, i \in Indexes :
          Sequential(MaxLibOps) /\ LibPyExiv2_deleteIptcTag(s, k, i)

SpecLib == Init /\ [][NextLib]_vars

\* Clients that set and get the XMP tags of the three structures.
NextXmp ==
    \/ \E s \in Sessions : Sequential(MaxXmpOps) /\ readMetadata(s)
    \/ \E s \in Sessions, k \in XmpKeys : Sequential(MaxXmpOps) /\ getXmpTag(s, k)
    \/ \E s \in Sessions, k \in XmpKeys, v \in Values :
          Sequential(MaxXmpOps) /\ setXmpTagTextValue(s, k, v)
    \/ \E s \in Sessions, k \in XmpKeys, vs \in ListsUpTo(MaxValues) :
          Sequential(MaxXmpOps) /\ setXmpTagArrayValue(s, k, vs)
    \/ \E s \in Sessions, k \in XmpKeys, d \in LangAltInputs :
          Sequential(MaxXmpOps) /\ setXmpTagLangAltValue(s, k, d)

SpecXmp == Init /\ [][NextXmp]_vars

\* Clients that construct IptcTag objects, with and without datums, and set
\* and get their raw values.
NextTag ==
    \/ \E o \in Tags, k \in IptcKeyInputs, d \in ListsUpTo(MaxValues) :
          Within(MaxTagOps) /\ IptcTag(o, k, d)
    \/ \E o \in Tags : Within(MaxTagOps) /\ destroyIptcTag(o)
    \/ \E o \in Tags, vs \in ListsUpTo(MaxValues) :
          Within(MaxTagOps) /\ setRawValues(o, vs)
    \/ \E o \in Tags : Within(MaxTagOps) /\ getRawValues(o)

SpecTag == Init /\ [][NextTag]_vars

\* Clients that get IptcTag objects from a session and go on changing both
\* the tags and the IPTC store of the session.
NextCopy ==
    \/ \E s \in Sessions : Sequential(MaxCopyOps) /\ readMetadata(s)
    \/ \E o \in Tags, s \in Sessions, k \in IptcKeyInputs :
          Within(MaxCopyOps) /\ IptcTagOfImage(o, s, k)
    \/ \E s \in Sessions, k \in IptcKeyInputs, vs \in ListsUpTo(MaxValues) :
          Sequential(MaxCopyOps) /\ setIptcTagValues(s, k, vs)
    \/ \E s \in Sessions, k \in IptcKeyInputs : Sequential(MaxCopyOps) /\ deleteIptcTag(s, k)
    \/ \E s, other \in Sessions : Sequential(MaxCopyOps) /\ copyMetadata(s, other, FALSE, TRUE, FALSE)
    \/ \E o \in Tags, vs \in ListsUpTo(MaxValues) :
          Within(MaxCopyOps) /\ setRawValues(o, vs)
    \/ \E o \in Tags : Within(MaxCopyOps) /\ getRawValues(o)

SpecCopy == Init /\ [][NextCopy]_vars

\* Clients that take the data buffer of sessions on files and on buffers,
\* before and after reads and writes.
NextBuffer ==
    \/ \E s \in Sessions : Sequential(MaxBufferOps) /\ readMetadata(s)
    \/ \E s \in Sessions : Sequential(MaxBufferOps) /\ writeMetadata(s)
    \/ \E s \in Sessions : Sequential(MaxBufferOps) /\ getDataBuffer(s)

SpecBuffer == InitBuffer /\ [][NextBuffer]_vars

\* Clients that get ExifTag and XmpTag objects from the sessions, go on
\* changing the stores, and use the tags.
NextRef ==
    \/ \E s \in Sessions : Within(MaxRefOps) /\ readMetadata(s) /\ tagsFollow
    \/ \E o \in Tags, s \in Sessions, k \in ExifKeys : Within(MaxRefOps) /\ ExifTag(o, s, k)
    \/ \E o \in Tags, s \in Sessions, k \in XmpKeys : Within(MaxRefOps) /\ XmpTag(o, s, k)
    \/ \E s \in Sessions, k \in ExifKeys, v \in Values :
          Within(MaxRefOps) /\ setExifTagValue(s, k, v) /\ tagsFollow
    \/ \E s \in Sessions, k \in ExifKeys :
          Within(MaxRefOps) /\ deleteExifTag(s, k) /\ tagsFollow
    \/ \E s \in Sessions, k \in XmpKeys, v \in Values :
          Within(MaxRefOps) /\ setXmpTagTextValue(s, k, v) /\ tagsFollow
    \/ \E s \in Sessions, k \in XmpKeys :
          Within(MaxRefOps) /\ deleteXmpTag(s, k) /\ tagsFollow
    \/ \E s, other \in Sessions, exif, iptc, xmp \in BOOLEAN :
          Within(MaxRefOps) /\ copyMetadata(s, other, exif, iptc, xmp) /\ tagsFollow
    \/ \E o \in Tags : Within(MaxRefOps) /\ getRawValue(o)

SpecRef == Init /\ [][NextRef]_vars

\* Error codes of Exiv2 (from -2), the custom codes and codes beyond them.
ErrorCodes == (0 - 2)..MaxErrorCode

\* Errors of any code reach the translator.
NextError ==
    \/ \E code \in ErrorCodes : Within(MaxErrors) /\ translate(code)

SpecError == Init /\ [][NextError]_vars

\* Clients that construct Image objects, from file names and from buffers,
\* read and write the metadata of the sessions, and destroy objects.
NextOpen ==
    \/ \E s \in Sessions : Sequential(MaxOpens) /\ readMetadata(s)
    \/ \E s \in Sessions : Sequential(MaxOpens) /\ writeMetadata(s)
    \/ \E o \in Objs, ok \in BOOLEAN : Sequential(MaxOpens) /\ ImageFromFile(o, ok)
    \/ \E o \in Objs, ok \in BOOLEAN : Sequential(MaxOpens) /\ ImageFromBuffer(o, ok)
    \/ \E o, image \in Objs, _data \in {"null", "wild"}, ok \in BOOLEAN :
          Sequential(MaxOpens) /\ ImageFromImage(o, image, _data, ok)
    \/ \E o \in Objs : Sequential(MaxOpens) /\ destroyImage(o)

SpecOpen == Init /\ [][NextOpen]_vars

\* ================================================================== claims
\* The accessors and mutators that begin with CHECK_METADATA_READ.
GatedOps ==
    {"exifKeys", "getExifTag", "setExifTagValue", "deleteExifTag",
     "iptcKeys", "getIptcTag", "setIptcTagValues", "deleteIptcTag",
     "xmpKeys", "getXmpTag", "setXmpTagTextValue", "setXmpTagArrayValue",
     "setXmpTagLangAltValue", "deleteXmpTag",
     "previews", "pixelWidth", "pixelHeight", "mimeType"}

\* The methods that set or delete a tag of a store.
Mutators ==
    {"setExifTagValue", "deleteExifTag", "setIptcTagValues", "deleteIptcTag",
     "setXmpTagTextValue", "setXmpTagArrayValue", "setXmpTagLangAltValue",
     "deleteXmpTag"}

NoStores == <<<<>>, <<>>, <<>>>>

C3_FailedReadLeavesSessionUnread ==
    (last.op = "readMetadata" /\ last.err # NO_ERROR)
        => /\ ~dataRead[last.s]
           /\ StoresOf(last.s) = NoStores

\* A re-read has failed on a session that had been read.
C3_Witness ==
    /\ last.op = "readMetadata"
    /\ last.err = READ_FAILED
    /\ last.wasRead

\* C4: readMetadata can be run again: after a successful read the stores
\* equal the metadata of the file, whatever set, delete or copy came before,
\* and a second successful read that follows a first one directly (so with
\* no write in between) leaves the stores as the first one made them.
C4_ReadReloadsFromFile ==
    [][\A s \in Sessions :
         (nops' # nops /\ last'.op = "readMetadata" /\ last'.err = NO_ERROR /\ last'.s = s)
           => /\ Exif(s)' = decode(stream[filename[s]]).exif
              /\ Iptc(s)' = decode(stream[filename[s]]).iptc
              /\ Xmp(s)' = decode(stream[filename[s]]).xmp
              /\ (last.op = "readMetadata" /\ last.err = NO_ERROR /\ last.s = s)
                    => StoresOf(s)' = StoresOf(s)]_vars

\* A session that had been read and edited has been read again, and the
\* read has replaced what the stores held.
C4_Witness ==
    /\ last.op = "readMetadata"
    /\ last.err = NO_ERROR
    /\ last.wasRead
    /\ last.changed

\* C5: a successful copyMetadata makes each store of the target that a flag
\* selects equal to what the source held before the call, leaves the other
\* stores of the target as they were and leaves the source as it was, for
\* the eight combinations of the flags.
C5_CopyAssignsSelectedStores ==
    [][\A s, other \in Sessions :
         (nops' # nops /\ last'.op = "copyMetadata" /\ last'.err = NO_ERROR
                 /\ last'.s = s /\ last'.key = other)
           => /\ Exif(other)' = IF last'.ret[1] THEN Exif(s) ELSE Exif(other)
              /\ Iptc(other)' = IF last'.ret[2] THEN Iptc(s) ELSE Iptc(other)
              /\ Xmp(other)' = IF last'.ret[3] THEN Xmp(s) ELSE Xmp(other)
              /\ StoresOf(s)' = StoresOf(s)]_vars

\* A copy with the Exif and XMP flags only has changed the target, whose
\* IPTC store still differs from that of the source.
C5_Witness ==
    /\ last.op = "copyMetadata"
    /\ last.err = NO_ERROR
    /\ last.s # last.key
    /\ last.ret = <<TRUE, FALSE, TRUE>>
    /\ last.changed
    /\ Exif(last.key) = Exif(last.s)
    /\ Xmp(last.key) = Xmp(last.s)
    /\ Iptc(last.key) # Iptc(last.s)

\* C6: copyMetadata fails with MetadataNotRead when the source or the target
\* has not been read, and then changes no store, flag or file.
C6_CopyNeedsBothRead ==
    [][(nops' # nops /\ last'.op = "copyMetadata"
               /\ (~dataRead[last'.s] \/ ~dataRead[last'.key]))
         => /\ last'.err = METADATA_NOT_READ
            /\ UNCHANGED <<dataRead, storeAt, exifData, iptcData, xmpData, stream, io>>]_vars

\* The copy has been refused for the target alone: the source had been
\* read and holds metadata.
C6_Witness ==
    /\ last.op = "copyMetadata"
    /\ last.err = METADATA_NOT_READ
    /\ last.wasRead
    /\ ~dataRead[last.key]
    /\ StoresOf(last.s) # NoStores

\* C7: the copy is by value: a set or a delete made on one session, also
\* after a copy between the two, leaves the stores of the other session as
\* they were (source to target and target to source).
C7_CopiesAreIndependent ==
    [][\A s, t \in Sessions :
         (nops' # nops /\ last'.op \in Mutators /\ last'.s = s /\ t # s)
           => StoresOf(t)' = StoresOf(t)]_vars

\* The Exif store has been copied between the sessions, and one of them
\* has then changed its Exif store: the two now differ.
C7_Witness ==
    /\ last.op \in {"setExifTagValue", "deleteExifTag"}
    /\ last.err = NO_ERROR
    /\ last.changed
    /\ "exif" \in copied
    /\ Exif("A") # Exif("B")

\* C8: only a successful writeMetadata changes the content of a file.
C8_OnlyWriteChangesStream ==
    [][stream' # stream => (last'.op = "writeMetadata" /\ last'.err = NO_ERROR)]_vars

\* A write has committed edited stores: the file differs from both initial
\* contents.
C8_Witness ==
    /\ last.op = "writeMetadata"
    /\ last.err = NO_ERROR
    /\ stream \notin InitialStreams

\* C9: on a read session, setIptcTagValues on a key that is not repeatable
\* fails with NonRepeatableTag when given two values or more and succeeds
\* when given exactly one, whatever the store held for the key before.
C9_NonRepeatableTakesOneValue ==
    (last.op = "setIptcTagValues" /\ last.key = IptcSingleKey /\ last.wasRead)
        => /\ last.n >= 2 => last.err = NON_REPEATABLE
           /\ last.n = 1 => last.err = NO_ERROR

\* Two values have been refused for a non-repeatable key the store holds.
C9_Witness ==
    /\ last.op = "setIptcTagValues"
    /\ last.key = IptcSingleKey
    /\ last.n = 2
    /\ last.err = NON_REPEATABLE
    /\ findKey(Iptc(last.s), IptcSingleKey) <= Len(Iptc(last.s))

\* C10: a store mutator that fails has changed nothing: the stores hold what
\* they held before the call, in particular when setIptcTagValues fails with
\* NonRepeatableTag part-way through its values.
C10_FailedMutatorChangesNothing ==
    (last.op \in Mutators /\ last.err # NO_ERROR) => ~last.changed

\* setIptcTagValues has failed with NonRepeatableTag after assigning the
\* first of its values.
C10_Witness ==
    /\ last.op = "setIptcTagValues"
    /\ last.err = NON_REPEATABLE
    /\ last.changed

\* C11: iptcKeys never lists a key twice, also when the IPTC store holds
\* several datums of one key; it lists exactly the keys that have a datum,
\* ordered by the first occurrence of each key in the store.
C11_IptcKeysDistinctInFirstOccurrenceOrder ==
    (last.op = "iptcKeys" /\ last.err = NO_ERROR)
        => LET keys == last.ret
               store == Iptc(last.s)
           IN  /\ \A i, j \in 1..Len(keys) : i # j => keys[i] # keys[j]
               /\ {keys[i] : i \in 1..Len(keys)} = {store[i].key : i \in 1..Len(store)}
               /\ \A i, j \in 1..Len(keys) :
                     i < j => findKey(store, keys[i]) < findKey(store, keys[j])

\* iptcKeys has listed two keys of a store of three datums whose first and
\* last datums have the same key.
C11_Witness ==
    /\ last.op = "iptcKeys"
    /\ last.err = NO_ERROR
    /\ Len(Iptc(last.s)) = 3
    /\ Iptc(last.s)[1].key = Iptc(last.s)[3].key
    /\ Len(last.ret) = 2

\* C12: deleteIptcTag(key) deletes all the repetitions of the key: after a
\* successful call the IPTC store holds no datum of the key, however many
\* repetitions there were and wherever they were in the store (next to each
\* other or separated by datums of other keys).
C12_DeleteIptcTagRemovesAllRepetitions ==
    (last.op = "deleteIptcTag" /\ last.err = NO_ERROR)
        => findKey(Iptc(last.s), last.key) > Len(Iptc(last.s))

\* deleteIptcTag has returned and the store still holds a datum of the key.
C12_Witness ==
    /\ last.op = "deleteIptcTag"
    /\ last.err = NO_ERROR
    /\ last.changed
    /\ findKey(Iptc(last.s), last.key) <= Len(Iptc(last.s))

C14_ExifAndXmpKeysUnique ==
    \A s \in Sessions :
       /\ \A i, j \in 1..Len(Exif(s)) :
             i # j => keysOf(Exif(s))[i] # keysOf(Exif(s))[j]
       /\ \A i, j \in 1..Len(Xmp(s)) :
             i # j => keysOf(Xmp(s))[i] # keysOf(Xmp(s))[j]

\* After a copy of the Exif store between the sessions, a set has changed
\* an Exif store, which now holds the two keys.
C14_Witness ==
    /\ last.op = "setExifTagValue"
    /\ last.err = NO_ERROR
    /\ last.changed
    /\ "exif" \in copied
    /\ Len(Exif(last.s)) = 2
    /\ Len(Xmp(last.s)) <= 1

\* C15: setExifTagValue is overwrite-or-create: after setExifTagValue(k, v)
\* has succeeded the Exif store holds a datum of k whose value is v, whether
\* or not k had a datum before, every other key keeps its datum and value,
\* and a getExifTag(k) made next on the session succeeds and returns v.
C15_SetExifOverwritesOrCreates ==
    [][/\ \A s \in Sessions, k \in ExifKeys, v \in Values :
            (setExifTagValue(s, k, v) /\ last'.err = NO_ERROR)
              => /\ findKey(Exif(s)', k) <= Len(Exif(s)')
                 /\ Exif(s)'[findKey(Exif(s)', k)].value = v
                 /\ \A k2 \in ExifKeys \ {k} :
                       IF findKey(Exif(s), k2) <= Len(Exif(s))
                       THEN /\ findKey(Exif(s)', k2) <= Len(Exif(s)')
                            /\ Exif(s)'[findKey(Exif(s)', k2)].value =
                                  Exif(s)[findKey(Exif(s), k2)].value
                       ELSE findKey(Exif(s)', k2) > Len(Exif(s)')
       /\ \A v \in Values :
            ( /\ last.op = "setExifTagValue"
              /\ last.err = NO_ERROR
              /\ Exif(last.s)[findKey(Exif(last.s), last.key)].value = v
              /\ getExifTag(last.s, last.key) )
              => (last'.err = NO_ERROR /\ last'.ret = <<v>>)]_vars

\* setExifTagValue has created the datum of a key the file does not hold,
\* in a store that holds another key.
C15_Witness ==
    /\ last.op = "setExifTagValue"
    /\ last.err = NO_ERROR
    /\ last.changed
    /\ findKey(stream[filename[last.s]].exif, last.key) > Len(stream[filename[last.s]].exif)
    /\ Len(Exif(last.s)) = 2

C18_PreviewsIsPureRead ==
    [][\A s \in Sessions :
         (nops' # nops /\ last'.op = "previews" /\ last'.s = s /\ dataRead[s])
           => /\ last'.err = NO_ERROR
              /\ UNCHANGED <<dataRead, storeAt, exifData, iptcData, xmpData, stream, io,
                             imageData>>
              /\ shown[s] # <<>> => last'.ret = shown[s][Len(shown[s])]]_vars

\* previews has been called a second time with no read or write in
\* between, on a session whose Exif store was changed after its read.
C18_Witness ==
    /\ last.op = "previews"
    /\ last.err = NO_ERROR
    /\ Len(shown[last.s]) = 2
    /\ Exif(last.s) # imageData[last.s].exif
    /\ last.ret # <<>>

\* C19: two sessions over two files are independent: whatever the order in
\* which their calls are made, a call on one session changes neither the
\* stores, nor the read flag, nor the file of the other session (nor what
\* its Exiv2 image holds); the only exception is the stores of the target
\* of a copyMetadata call, whose read flag and file stay as they were too.
C19_SessionsOverDistinctFilesIndependent ==
    [][\A s, t \in Sessions :
         (nops' # nops /\ last'.s = s /\ t # s /\ filename[s] # filename[t])
           => /\ dataRead'[t] = dataRead[t]
              /\ stream'[filename[t]] = stream[filename[t]]
              /\ imageData'[t] = imageData[t]
              /\ (last'.op = "copyMetadata" /\ last'.key = t)
                 \/ StoresOf(t)' = StoresOf(t)]_vars

\* A session has changed its Exif store while the other session, opened on
\* another file, is read and holds metadata.
C19_Witness ==
    /\ last.op = "setExifTagValue"
    /\ last.err = NO_ERROR
    /\ last.changed
    /\ filename["A"] # filename["B"]
    /\ \E t \in Sessions \ {last.s} : dataRead[t] /\ StoresOf(t) # NoStores

\* C20: every resource an Image object acquires when it is opened (the
\* Exiv2 image with its stream and, for an object opened from bytes, the
\* private copy of the input buffer) is released on every exit path: once
\* the object is destroyed, and also once its constructor has failed.
C20_ResourcesReleasedOnEveryExit ==
    \A o \in Objs :
       obj[o].status \in {"failed", "destroyed"} => (~obj[o].data /\ ~obj[o].image)

\* The constructor from a buffer has thrown, and the copy of the buffer it
\* allocated is still there.
C20_Witness ==
    /\ last.op = "Image"
    /\ last.err = OPEN_MEMORY_FAILED
    /\ obj[last.s].status = "failed"
    /\ obj[last.s].data

C22_InvalidKeyIsRefused ==
    [][(/\ nops' # nops
        /\ last'.op \in Mutators \cup {"getExifTag", "getIptcTag", "getXmpTag"}
        /\ last'.key = BadKey
        /\ dataRead[last'.s])
         => /\ last'.err = INVALID_KEY
            /\ translateExiv2Error(last'.err) = "KeyError"
            /\ UNCHANGED <<dataRead, storeAt, exifData, iptcData, xmpData, stream, io>>
            /\ \A s \in Sessions :
                  /\ findKey(Exif(s)', BadKey) > Len(Exif(s)')
                  /\ findKey(Iptc(s)', BadKey) > Len(Iptc(s)')
                  /\ findKey(Xmp(s)', BadKey) > Len(Xmp(s)')]_vars

\* A set of the Exif store has been refused for its key on a read session
\* that holds metadata.
C22_Witness ==
    /\ last.op = "setExifTagValue"
    /\ last.key = BadKey
    /\ last.wasRead
    /\ last.err = INVALID_KEY
    /\ Exif(last.s) # <<>>

\* C24: setIptcTag(key, value, index) of LibPyExiv2::Image on a read
\* session: with an index below the number of repetitions of the key it
\* overwrites exactly that repetition and no other; with an index equal to
\* that number it appends one repetition; an index larger than that number
\* is not permitted (the call fails and changes nothing), so that the
\* repetitions of a key never have a gap.
C24_IndexBeyondCountNotPermitted ==
    [][\A s \in Sessions, k \in IptcKeys, v \in Values, i \in Indexes :
         (setIptcTag(s, k, v, i) /\ dataRead[s])
           => LET idx   == SelectIdx(Iptc(s), k, 1)
                  count == Len(idx)
              IN  /\ i < count =>
                        /\ last'.err = NO_ERROR
                        /\ Iptc(s)' = setValueAt(Iptc(s), idx[i + 1], v)
                  /\ (i = count /\ (dataSetRepeatable(k) \/ count = 0)) =>
                        /\ last'.err = NO_ERROR
                        /\ Iptc(s)' = Append(Iptc(s), Datum(k, v))
                  /\ i > count =>
                        /\ last'.err # NO_ERROR
                        /\ Iptc(s)' = Iptc(s)]_vars

\* C24, amended: with an index below the number of repetitions of the key,
\* setIptcTag overwrites exactly that repetition and no other; with any
\* other index, equal to that number or larger, it appends one repetition,
\* which becomes the last one whatever the index was (for a key that is not
\* repeatable and has a datum it fails with NonRepeatable and changes
\* nothing); the number of repetitions grows by one at most, so that the
\* repetitions of a key never have a gap.
C24_IndexAtOrBeyondCountAppends ==
    [][\A s \in Sessions, k \in IptcKeys, v \in Values, i \in Indexes :
         (setIptcTag(s, k, v, i) /\ dataRead[s])
           => LET idx   == SelectIdx(Iptc(s), k, 1)
                  count == Len(idx)
              IN  /\ i < count =>
                        /\ last'.err = NO_ERROR
                        /\ Iptc(s)' = setValueAt(Iptc(s), idx[i + 1], v)
                  /\ (i >= count /\ (dataSetRepeatable(k) \/ count = 0)) =>
                        /\ last'.err = NO_ERROR
                        /\ Iptc(s)' = Append(Iptc(s), Datum(k, v))
                        /\ Len(SelectIdx(Iptc(s)', k, 1)) = count + 1
                  /\ (i >= count /\ ~dataSetRepeatable(k) /\ count > 0) =>
                        /\ last'.err = NON_REPEATABLE
                        /\ Iptc(s)' = Iptc(s)]_vars

\* setIptcTag has returned after appending a third repetition to a key
\* that had two, called with an index of three.
C24_Witness ==
    /\ last.op = "setIptcTag"
    /\ last.err = NO_ERROR
    /\ last.changed
    /\ last.n = 3
    /\ Len(SelectIdx(Iptc(last.s), last.key, 1)) = 3
    /\ Iptc(last.s)[Len(Iptc(last.s))].key = last.key

\* C25: setExifTag and setIptcTag of LibPyExiv2::Image return the type of
\* the tag and its previous value: the value that the tag (for setIptcTag,
\* the repetition at the index) held right before the call, or the empty
\* string when it was not set before.
C25_SetReturnsPreviousValue ==
    [][/\ \A s \in Sessions, k \in ExifKeys, v \in Values :
            (setExifTag(s, k, v) /\ last'.err = NO_ERROR)
              => last'.ret = <<typeName(k),
                               IF findKey(Exif(s), k) <= Len(Exif(s))
                               THEN Exif(s)[findKey(Exif(s), k)].value ELSE "">>
       /\ \A s \in Sessions, k \in IptcKeys, v \in Values, i \in Indexes :
            (setIptcTag(s, k, v, i) /\ last'.err = NO_ERROR)
              => LET idx == SelectIdx(Iptc(s), k, 1)
                 IN  last'.ret = <<typeName(k),
                                   IF i < Len(idx) THEN Iptc(s)[idx[i + 1]].value ELSE "">>]_vars

\* setIptcTag has changed the value of a repetition and has returned the
\* value it has just set.
C25_Witness ==
    /\ last.op = "setIptcTag"
    /\ last.err = NO_ERROR
    /\ last.changed
    /\ last.n < Len(SelectIdx(Iptc(last.s), last.key, 1))
    /\ last.ret[2] = Iptc(last.s)[SelectIdx(Iptc(last.s), last.key, 1)[last.n + 1]].value

\* C26: after setIptcTagValues(key, values) has succeeded, the datums of the
\* key in the IPTC store carry exactly the given values in the given order:
\* the repetitions there were are overwritten in place, the missing ones are
\* appended at the end of the store and the surplus ones are erased, for a
\* list of any length; the empty list removes every repetition and succeeds
\* also when the key had no datum.  The datums of the other keys keep their
\* values and their relative order.
C26_SetIptcTagValuesStoresTheList ==
    [][\A s \in Sessions, k \in IptcKeys, vs \in ListsUpTo(MaxValues) :
         (setIptcTagValues(s, k, vs) /\ dataRead[s])
           => LET old      == Iptc(s)
                  new      == Iptc(s)'
                  idx      == SelectIdx(old, k, 1)
                  count    == Len(idx)
                  n        == Len(vs)
                  kept     == IF count < n THEN count ELSE n
                  NotOfKey(d) == d.key # k
              IN  /\ vs = <<>> => last'.err = NO_ERROR
                  /\ last'.err = NO_ERROR =>
                        /\ iptcValuesOf(new, k) = vs
                        /\ SelectSeq(new, NotOfKey) = SelectSeq(old, NotOfKey)
                        /\ \A j \in 1..kept : new[idx[j]] = Datum(k, vs[j])
                        /\ \A j \in (count + 1)..n :
                              new[Len(new) - n + j] = Datum(k, vs[j])
                        /\ Len(new) = Len(old) - count + n]_vars

\* setIptcTagValues has erased, with the empty list, the repetitions of a
\* key of which the file holds two, separated by a datum of another key.
C26_Witness ==
    /\ last.op = "setIptcTagValues"
    /\ last.err = NO_ERROR
    /\ last.n = 0
    /\ last.changed
    /\ Len(SelectIdx(decode(stream[filename[last.s]]).iptc, last.key, 1)) = 2
    /\ Len(Iptc(last.s)) = 1

C27_GetIptcTagListsTheRepetitions ==
    (last.op = "getIptcTag" /\ last.err = NO_ERROR)
        => LET store  == Iptc(last.s)
               ofKey  == {i \in 1..Len(store) : store[i].key = last.key}
               rank(i) == Cardinality({p \in ofKey : p <= i})
           IN  /\ Len(last.ret) = Cardinality(ofKey)
               /\ Len(last.ret) >= 1
               /\ \A i \in ofKey : last.ret[rank(i)] = store[i].value

\* getIptcTag has returned the two values of a key whose datums are
\* separated, in the store, by a datum of another key.
C27_Witness ==
    /\ last.op = "getIptcTag"
    /\ last.err = NO_ERROR
    /\ Len(last.ret) = 2
    /\ Len(Iptc(last.s)) = 3
    /\ Iptc(last.s)[2].key # last.key
    /\ last.ret[1] # last.ret[2]

\* C29: each XMP setter overwrites.  After setXmpTagTextValue,
\* setXmpTagArrayValue or setXmpTagLangAltValue has succeeded, the value of
\* the tag is the one the same call gives on a store without the key (it is
\* determined by the argument alone, not by the value the key held before),
\* and the same call made once more leaves the store as it is.
C29_XmpSettersOverwrite ==
    [][\A s \in Sessions, k \in XmpKeys :
         LET old == xmpData[storeAt[s].xmp]
             new == xmpData'[storeAt[s].xmp]
             at(seq) == seq[findKey(seq, k)].value
         IN  /\ \A v \in Values :
                  (setXmpTagTextValue(s, k, v) /\ last'.err = NO_ERROR)
                    => /\ at(new) = at(xmpSetText(<<>>, k, v))
                       /\ xmpSetText(new, k, v) = new
             /\ \A vs \in ListsUpTo(MaxValues) :
                  (setXmpTagArrayValue(s, k, vs) /\ last'.err = NO_ERROR)
                    => LET strs == [i \in 1..Len(vs) |-> PlainString(vs[i])]
                       IN  /\ at(new) = at(xmpResetAndSet(<<>>, k, strs))
                           /\ xmpResetAndSet(new, k, strs) = new
             /\ \A d \in LangAltInputs :
                  (setXmpTagLangAltValue(s, k, d) /\ last'.err = NO_ERROR)
                    => LET strs == [i \in 1..Len(d) |-> LangString(d[i][1], d[i][2])]
                       IN  /\ at(new) = at(xmpResetAndSet(<<>>, k, strs))
                           /\ xmpResetAndSet(new, k, strs) = new]_vars

\* setXmpTagTextValue has succeeded twice on the bag key, and the bag holds
\* the items of both calls.
C29_Witness ==
    /\ last.op = "setXmpTagTextValue"
    /\ last.err = NO_ERROR
    /\ propertyType(last.key) = "xmpBag"
    /\ \E i \in 1..Len(Xmp(last.s)) :
          /\ Xmp(last.s)[i].key = last.key
          /\ Xmp(last.s)[i].value.t = "array"
          /\ Len(Xmp(last.s)[i].value.v) = 2

\* C30: an IptcTag of a non-repeatable key never holds more than one value.
\* Constructing it from more than one datum fails with NON_REPEATABLE and
\* yields no tag; setRawValues with more than one value fails with
\* NON_REPEATABLE (a KeyError) and leaves the values of the tag as they were.
C30_NonRepeatableTagHoldsOneValue ==
    [][/\ \A o \in Tags :
            (tag'[o].status = "live" /\ ~dataSetRepeatable(tag'[o].key))
               => Len(tag'[o].data) <= 1
       /\ \A o \in Tags, k \in IptcKeys, d \in ListsUpTo(MaxValues) :
            (IptcTag(o, k, d) /\ ~dataSetRepeatable(k) /\ Len(d) > 1)
               => /\ last'.err = NON_REPEATABLE
                  /\ tag'[o].status = "failed"
       /\ \A o \in Tags, vs \in ListsUpTo(MaxValues) :
            (setRawValues(o, vs) /\ ~dataSetRepeatable(tag[o].key) /\ Len(vs) > 1)
               => /\ last'.err = NON_REPEATABLE
                  /\ translateExiv2Error(last'.err) = "KeyError"
                  /\ tag' = tag]_vars

\* setRawValues with two values has been refused on a live tag of the
\* non-repeatable key, which still holds the one value it was given before.
C30_Witness ==
    /\ last.op = "setRawValues"
    /\ last.err = NON_REPEATABLE
    /\ last.n = 2
    /\ tag[last.s].status = "live"
    /\ tag[last.s].key = IptcSingleKey
    /\ Len(tag[last.s].data) = 1
    /\ tag[last.s].data[1].value \in Values

\* C31: translateExiv2Error is total.  For every error code it sets exactly
\* one Python exception; METADATA_NOT_READ (101), NON_REPEATABLE (102) and
\* KEY_NOT_FOUND (103) give IOError, KeyError and KeyError with their fixed
\* messages, and every code without a case of its own gives RuntimeError
\* with the message of the error.
C31_TranslateIsTotal ==
    last.op = "translateExiv2Error" =>
        /\ Len(last.ret) = 1
        /\ last.ret[1][1] \in {"RuntimeError", "IOError", "KeyError", "ValueError", "TypeError"}
        /\ last.err = 101 => last.ret[1] = <<"IOError", "Image metadata has not been read yet">>
        /\ last.err = 102 => last.ret[1] = <<"KeyError", "Tag is not repeatable">>
        /\ last.err = 103 => last.ret[1] = <<"KeyError", "Tag not set">>
        /\ last.err \notin ((2..15) \cup (17..23) \cup (26..33) \cup (35..49) \cup (101..103))
              => last.ret[1] = <<"RuntimeError", "error.what()">>

\* An error whose code has no case in the switch has been translated.
C31_Witness ==
    /\ last.op = "translateExiv2Error"
    /\ last.err = 104
    /\ last.ret = << <<"RuntimeError", "error.what()">> >>

\* C32: setIptcTagValues, deleteIptcTag and copyMetadata keep the IPTC store
\* of a session free of repeated non-repeatable keys.  When no non-repeatable
\* key has more than one datum in the store of a session (and, for
\* copyMetadata, in the store of the session copied from), none has after the
\* call, also when the call fails with NON_REPEATABLE; readMetadata gives
\* such a store, so every store of a read session is one.
C32_NonRepeatableKeysStaySingle ==
    [][LET Single(seq) ==
               \A k \in IptcKeys :
                  ~dataSetRepeatable(k) => Len(SelectIdx(seq, k, 1)) <= 1
       IN  /\ last'.op \in {"setIptcTagValues", "deleteIptcTag", "copyMetadata"}
                => \A t \in Sessions :
                      (/\ Single(iptcData[storeAt[t].iptc])
                       /\ Single(iptcData[storeAt[last'.s].iptc]))
                         => Single(iptcData'[storeAt'[t].iptc])
           /\ (last'.op = "readMetadata" /\ last'.err = NO_ERROR)
                => Single(iptcData'[storeAt'[last'.s].iptc])
           /\ \A t \in Sessions : dataRead'[t] => Single(iptcData'[storeAt'[t].iptc])]_vars

\* setIptcTagValues has failed with NON_REPEATABLE on the non-repeatable key
\* after it had overwritten the one datum of the key, which is still alone.
C32_Witness ==
    /\ last.op = "setIptcTagValues"
    /\ last.err = NON_REPEATABLE
    /\ last.key = IptcSingleKey
    /\ last.changed
    /\ Len(SelectIdx(Iptc(last.s), IptcSingleKey, 1)) = 1

\* C33: the read flag is monotonic.  It is false after every constructor
\* (the sessions start unread, and an object that a constructor has just
\* built has _dataRead = false), and once it is true on a session no call,
\* whether it succeeds or fails, sets it back to false: not a readMetadata
\* that fails, not a writeMetadata that fails.
C33_ReadFlagIsMonotonic ==
    /\ \A s \in Sessions : ~dataRead[s]
    /\ [][/\ \A s \in Sessions : dataRead[s] => dataRead'[s]
          /\ \A o \in Objs :
                (last'.op = "Image" /\ last'.s = o /\ last'.err = NO_ERROR)
                   => obj'[o]._dataRead = "false"]_vars

\* A readMetadata has failed on a session that had been read, which is
\* still read.
C33_Witness ==
    /\ last.op = "readMetadata"
    /\ last.err = READ_FAILED
    /\ last.wasRead
    /\ dataRead[last.s]

\* C38: in every reachable state the _data pointer of an Image object is
\* null or designates an array that the object itself allocated and that is
\* still allocated, whichever of the three constructors made the object, and
\* the destructor hands to delete[] nothing but that array.
C38_DataPointerIsNullOrOwned ==
    \A o \in Objs :
       /\ obj[o].status = "live"
            => /\ obj[o]._data \in {"null", "own"}
               /\ obj[o]._data = "own" => obj[o].data
       /\ obj[o].status = "destroyed"
            => /\ obj[o].freed \in {"nothing", "own"}
               /\ ~obj[o].data

\* An object made by the copy constructor, whose _data happened not to be
\* null, has been destroyed.
C38_Witness ==
    /\ last.op = "~Image"
    /\ obj[last.s].status = "destroyed"
    /\ obj[last.s]._data = "wild"
    /\ obj[last.s].freed = "wild"

\* C34: during a first readMetadata (read flag not set on entry) the flag is
\* set only once the three stores have been assigned, and a thread that
\* lists the keys of a store of the same session while the reading thread is
\* without the GIL either fails with METADATA_NOT_READ or gets the keys of
\* the store as the completed read loads it, never those of a store that is
\* not loaded yet.
C34_FirstReadIsAllOrNothing ==
    /\ \A u \in Threads :
          (/\ threads.pc[u] \in {"io", "done"}
           /\ threads.op[u] = "readMetadata"
           /\ ~threads.before[u].flag
           /\ dataRead[threads.on[u]])
             => LET s == threads.on[u]
                IN  <<Exif(s), Iptc(s), Xmp(s)>> =
                       <<imageData[s].exif, imageData[s].iptc, imageData[s].xmp>>
    /\ (last.op \in {"exifKeys", "iptcKeys", "xmpKeys"} /\ last.n = 1)
          => \/ last.err = METADATA_NOT_READ
             \/ /\ last.err = NO_ERROR
                /\ LET m == decode(stream[filename[last.s]])
                   IN  last.ret = keysOf(CASE last.op = "exifKeys" -> m.exif
                                           [] last.op = "iptcKeys" -> m.iptc
                                           [] OTHER -> m.xmp)

\* A thread has listed keys of a session, past CHECK_METADATA_READ, while the
\* thread that reads the session for the first time had not taken the GIL
\* again.
C34_Witness ==
    /\ last.op \in {"exifKeys", "iptcKeys", "xmpKeys"}
    /\ last.n = 1
    /\ last.err = NO_ERROR
    /\ \E u \in Threads : /\ threads.pc[u] = "done"
                          /\ threads.on[u] = last.s
                          /\ threads.holder # u

\* C35: a tag object returned by getExifTag or getXmpTag designates, for as
\* long as it is there, a datum that the store of its session holds under
\* the key of the tag, whatever is called on the session afterwards:
\* deleteExifTag, deleteXmpTag, a set of another key, copyMetadata into the
\* session, readMetadata.
C35_TagDesignatesDatumOfStore ==
    \A o \in Tags :
       (tag[o].status = "live" /\ tag[o].kind \in {"exif", "xmp"})
          => /\ tag[o]._datum = "datum"
             /\ LET st == IF tag[o].kind = "exif" THEN Exif(tag[o].of) ELSE Xmp(tag[o].of)
                IN  findKey(st, tag[o].key) <= Len(st)

\* deleteExifTag has erased the datum of a key of which a tag got earlier
\* from the same session is still there.
C35_Witness ==
    /\ last.op = "deleteExifTag"
    /\ last.err = NO_ERROR
    /\ \E o \in Tags : /\ tag[o].status = "live"
                       /\ tag[o].kind = "exif"
                       /\ tag[o].of = last.s
                       /\ tag[o].key = last.key
                       /\ tag[o]._datum = "stale"

\* C36: the IptcTag that getIptcTag returns holds datums of its own.  A
\* setRawValues on such a tag leaves every IPTC store as it was; a call that
\* changes the store of the session (readMetadata, setIptcTagValues,
\* deleteIptcTag, copyMetadata) leaves the datums of every such tag as they
\* were; and getRawValues reports the values of the datums the tag holds.
C36_IptcTagHoldsACopy ==
    [][ /\ (last'.op = "setRawValues" /\ tag[last'.s].kind = "iptc")
              => /\ iptcData' = iptcData
                 /\ storeAt' = storeAt
        /\ last'.op \in {"readMetadata", "setIptcTagValues", "deleteIptcTag", "copyMetadata"}
              => \A o \in Tags : tag[o].kind = "iptc" => tag'[o] = tag[o]
        /\ (last'.op = "getRawValues" /\ tag[last'.s].kind = "iptc")
              => last'.ret = [i \in 1..Len(tag[last'.s].data) |-> tag[last'.s].data[i].value]
      ]_vars

\* A setRawValues gave a tag got from a session other values than the ones
\* the store of that session still holds for the key.
C36_Witness ==
    /\ last.op = "setRawValues"
    /\ last.err = NO_ERROR
    /\ last.changed
    /\ tag[last.s].kind = "iptc"
    /\ LET r == tag[last.s]
           inStore == iptcValuesOf(Iptc(r.of), r.key)
       IN  /\ inStore # <<>>
           /\ r.data # <<>>
           /\ inStore # [i \in 1..Len(r.data) |-> r.data[i].value]

\* C37: a getDataBuffer call leaves the stream of the session as it found
\* it (open at the same position, or closed), returns the whole content of
\* the stream from offset 0, ends without an error whether or not the
\* session was read, and changes no store, no read flag and no file.
C37_GetDataBufferRestoresStream ==
    [][ last'.op = "getDataBuffer"
          => /\ io' = io
             /\ last'.err = NO_ERROR
             /\ last'.ret = bytesOf(stream[filename[last'.s]])
             /\ UNCHANGED <<dataRead, storeAt, exifData, iptcData, xmpData, stream, imageData>>
      ]_vars

\* getDataBuffer has returned on a session whose stream was open past the
\* start and holds metadata.
C37_Witness ==
    /\ last.op = "getDataBuffer"
    /\ io[last.s].isopen
    /\ io[last.s].pos > 0
    /\ stream[filename[last.s]].iptc # <<>>
    /\ last.ret[3] = <<"iptc", stream[filename[last.s]].iptc>>

====
